---- MODULE Spec2Model ----
(***************************************************************************)
(* Blend2D JIT compositor (CompOpPart, pipeline/jit/compoppart.cpp).       *)
(*                                                                         *)
(* Five state machines share this module:                                  *)
(*   SpecLoop    - the machine code emitted by cMaskGenericLoopVec,        *)
(*                 cMaskMemcpyOrMemsetLoop, vMaskGenericLoop and           *)
(*                 cMaskGranularLoopVec, run on a span of `len` pixels     *)
(*                 (one action per basic block);                           *)
(*   SpecMasked  - the vMaskGenericLoop and cMaskGranularLoopVec part of   *)
(*                 SpecLoop on its own;                                    *)
(*   SpecSession - the code-generation session of one CompOpPart           *)
(*                 (cMaskInit / cMaskFini / partial mode / loop drivers);  *)
(*   SpecKernel  - the per-pixel kernels as pure functions of the source,  *)
(*                 destination and mask values;                            *)
(*   SpecCodegen - preparePart() and the choice of a kernel branch.        *)
(* BL_ASSERT and BL_NOT_REACHED are fatal: the machine stops.              *)
(***************************************************************************)
EXTENDS Integers, Sequences, FiniteSets, TLC

VARIABLES
  lp,         \* loop configuration: pixelType, maxPixels, minAlignment, ...
  i,          \* the loop counter register (32-bit, kept as a signed value)
  dPtr,       \* the destination pointer register (byte address)
  pc,         \* position in the emitted loop (label of the basic block)
  consumed,   \* lanes processed by the tier bodies so far
  fetchMode,  \* source fetch protocol: "none", "one", "entered", "N",
              \* "postfetched", or "broken" after a hook called out of order
  lastStore,  \* the most recent store: lanes, alignment, address
  dstAlignment, \* alignment set on the destination fetch part
  dstBuf,     \* destination pixels of the span, indexed from the first one
  cfg,              \* the part as configured by preparePart() and init()
  cMaskLoopType,    \* _cMaskLoopType: "None", "Opaque" or "Variant"
  cMaskLoopHook,    \* _cMaskLoopHook: "null" or "cursor"
  mask,             \* _mask: sm, vm, vn
  solidOpt,         \* _solidOpt
  solidPre,         \* _solidPre (its uc register)
  isInPartialMode,  \* _isInPartialMode
  partialPixel,     \* _partialPixel: the bytes of its register
  srcX,             \* pixels the source part has fetched so far
  aborted,          \* "" or the function whose assertion stopped the run
  lastCall,         \* history: the most recent call, its argument and result
  opened,           \* history: registers the open session was inited with
  closed,           \* history: the mask value of the session closed last
  partialHist,      \* history: pixels fetched by enterPartialMode, shifts
  kin,              \* kernel inputs: configuration, pixels and mask
  kout              \* kernel outputs

loopVars ==
  <<lp, i, dPtr, pc, consumed, fetchMode, lastStore, dstAlignment, dstBuf>>

partVars ==
  <<cfg, cMaskLoopType, cMaskLoopHook, mask, solidOpt, solidPre,
    isInPartialMode, partialPixel>>

histVars == <<srcX, aborted, lastCall, opened, closed, partialHist>>

kernVars == <<kin, kout>>

\* What a step of the emitted loop and a call on the part leave alone.
LoopOnly == UNCHANGED <<partVars, histVars, kernVars>>

SessionOnly == UNCHANGED <<loopVars, kernVars>>

vars == <<loopVars, partVars, histVars, kernVars>>

\* ------------------------------------------------------------------------
\* Bounds of the model.

\* Longest span length driven through the emitted loop.
MaxLen == 66

\* Longest span length driven through the loops of vMaskGenericLoop and
\* cMaskGranularLoopVec.
MaxMaskedLen == 40

\* Lanes after which a loop that overruns its span is no longer followed.
RunCap == MaxLen + 8

\* Pixels of destination memory that are modelled.
BufLen == RunCap + 32

\* ------------------------------------------------------------------------
\* x86 arithmetic on the counter register.  The register is 32 bits wide
\* and holds its value modulo 2^32; the model keeps the two's-complement
\* (signed) reading of it, so 0xFFFFFFFF is -1.

\* `sub r, k` sets the carry flag when the unsigned value is below k.
SubCarry(r, k) == r >= 0 /\ r < k

\* `add r, k` sets the carry flag when the unsigned sum leaves 32 bits.
AddCarry(r, k) == r < 0 /\ r + k >= 0

\* `cmp r, k` followed by jae: unsigned r >= k.
CmpAe(r, k) == r < 0 \/ r >= k

\* ------------------------------------------------------------------------
\* Configuration produced by preparePart().

kA8 == "A8"
kRGBA32 == "RGBA32"

\* Bytes per pixel of the destination.
Bpp(pixelType) == IF pixelType = kRGBA32 THEN 4 ELSE 1

\* _minAlignment as left by preparePart: 16 for RGBA32 with 4+ pixels.
PrepareMinAlignment(pixelType, maxPixels) ==
  IF pixelType = kRGBA32 /\ maxPixels >= 4 THEN 16 ELSE 1

\* The tier shapes cMaskGenericLoopVec knows.
LoopMaxPixels == {1, 4, 8, 16, 32}

\* The loops a span can be driven through.
LoopPaths ==
  {"cMaskGenericLoopVec", "cMaskMemcpyOrMemsetLoop", "vMaskGenericLoop",
   "cMaskGranularLoopVec"}

LoopConfigs ==
  { [pixelType |-> t, maxPixels |-> n,
     minAlignment |-> PrepareMinAlignment(t, n),
     maskedAccess |-> ma, simd512 |-> z, len |-> l, ptr0 |-> 64 + a,
     path |-> "cMaskGenericLoopVec"] :
      t \in {kA8, kRGBA32}, n \in LoopMaxPixels, ma \in BOOLEAN,
      z \in BOOLEAN, l \in 0..MaxLen, a \in 0..15 }
  \cup
  { [pixelType |-> t, maxPixels |-> n,
     minAlignment |-> PrepareMinAlignment(t, n),
     maskedAccess |-> TRUE, simd512 |-> FALSE, len |-> l, ptr0 |-> 64,
     path |-> q] :
      t \in {kA8, kRGBA32}, n \in LoopMaxPixels, l \in 0..MaxLen,
      q \in LoopPaths \ {"cMaskGenericLoopVec"} }

\* Configurations that differ only in a field the shape never reads are
\* dropped: 512-bit SIMD matters to the 16-pixel shape, masked access to the
\* 16 and 32 pixel shapes, the pointer's alignment to the aligned shapes;
\* the other loops read none of them.  The granular loop is handed spans of
\* whole groups of 4 pixels.
LoopConfigUsed(c) ==
  /\ (c.maxPixels # 16 => ~c.simd512)
  /\ (c.maxPixels \notin {16, 32} => c.maskedAccess)
  /\ (c.minAlignment = 1 => c.ptr0 = 64)
  /\ (c.path # "cMaskGenericLoopVec" =>
        c.maskedAccess /\ ~c.simd512 /\ c.ptr0 = 64)
  /\ (c.path \in {"vMaskGenericLoop", "cMaskGranularLoopVec"} =>
        c.len <= MaxMaskedLen)
  /\ (c.path = "cMaskGranularLoopVec" => c.len % 4 = 0)

alignmentMask == lp.minAlignment - 1

\* i_test(dPtr, alignmentMask): the low bits of the pointer.
PtrTest(p) == p % (alignmentMask + 1)

\* ------------------------------------------------------------------------
\* Registers and the fixed-point helpers of the code generator.
\*
\* A register holds the lanes of its pixels as a sequence: one lane per A8
\* pixel, four lanes <<B, G, R, A>> per RGBA32 pixel.  An operand that was
\* never assigned a register is the empty sequence; an instruction with such
\* an operand produces no value, so the result is invalid as well.  A
\* register that holds fewer pixels than the other operand holds them
\* replicated across its width (cloneAs of a broadcast register).

Undef == << >>

IsValid(r) == Len(r) > 0

Lane1(Op(_), x) == [k \in 1..Len(x) |-> Op(x[k])]

Lane2(Op(_, _), x, y) ==
  IF Len(x) = 0 \/ Len(y) = 0 THEN Undef
  ELSE LET n == IF Len(x) >= Len(y) THEN Len(x) ELSE Len(y)
       IN [k \in 1..n |-> Op(x[((k - 1) % Len(x)) + 1],
                             y[((k - 1) % Len(y)) + 1])]

\* A register with every lane holding c, shaped like x.
Splat(x, c) == [k \in 1..Len(x) |-> c]

\* General purpose (32 bit) helpers.
i_mul(x, y) == Lane2(LAMBDA a, b : a * b, x, y)

i_add(x, y) == Lane2(LAMBDA a, b : a + b, x, y)

i_sub(x, y) == Lane2(LAMBDA a, b : a - b, x, y)

\* xor with 0xFF
i_inv_u8(x) == Lane1(LAMBDA a : (a - (a % 256)) + (255 - (a % 256)), x)

\* (x + 128) * 257 >> 16
i_div_255_u32(x) == Lane1(LAMBDA a : ((a + 128) * 257) \div 65536, x)

\* x * 257 >> 16
i_mul_257_hu16(x) == Lane1(LAMBDA a : (a * 257) \div 65536, x)

\* saturated byte addition
i_adds_u8(x, y) ==
  Lane2(LAMBDA a, b : IF a + b > 255 THEN 255 ELSE a + b, x, y)

\* Vector helpers on 16-bit lanes.
v_mul_u16(x, y) == Lane2(LAMBDA a, b : (a * b) % 65536, x, y)

v_add_i16(x, y) == Lane2(LAMBDA a, b : (a + b) % 65536, x, y)

v_sub_i16(x, y) == Lane2(LAMBDA a, b : (a - b) % 65536, x, y)

v_subs_u16(x, y) == Lane2(LAMBDA a, b : IF a > b THEN a - b ELSE 0, x, y)

v_inv255_u16(x) == i_inv_u8(x)

v_mul257_hi_u16(x) == i_mul_257_hu16(x)

v_div255_u16(x) ==
  Lane1(LAMBDA a : (((a + 128) % 65536) * 257) \div 65536, x)

\* Lane of the alpha channel of the pixel lane k belongs to.
AlphaLane(k) == 4 * ((k - 1) \div 4) + 4

\* Broadcast of each pixel's alpha lane to the four lanes of the pixel.
v_expand_alpha_16(x) == [k \in 1..Len(x) |-> x[AlphaLane(k)]]

\* Alpha lane cleared / set to 255, colour lanes kept.
vZeroAlphaW(x) == [k \in 1..Len(x) |-> IF k = AlphaLane(k) THEN 0 ELSE x[k]]

vFillAlpha255W(x) ==
  [k \in 1..Len(x) |-> IF k = AlphaLane(k) THEN 255 ELSE x[k]]

\* Pack of 16-bit lanes to bytes with signed saturation.
v_packs_i16_u8(x) ==
  Lane1(LAMBDA a : IF a >= 32768 THEN 0 ELSE IF a > 255 THEN 255 ELSE a, x)

\* Saturated addition of packed bytes.
v_adds_u8(x, y) == i_adds_u8(x, y)

\* Carry out of byte k of the 32-bit sums of packed pixels x and y; the
\* carry out of a pixel's top byte is dropped.
RECURSIVE AddCarryOut(_, _, _)
AddCarryOut(x, y, k) ==
  IF k % 4 = 0 THEN 0
  ELSE (x[k] + y[k] + AddCarryOut(x, y, k - 1)) \div 256

\* 32-bit addition of packed pixels: carries run from byte to byte inside
\* each pixel.
v_add_i32(x, y) ==
  IF Len(x) = 0 \/ Len(y) # Len(x) THEN Undef
  ELSE [k \in 1..Len(x) |->
          (x[k] + y[k] + AddCarryOut(x, y, k - 1)) % 256]

\* ------------------------------------------------------------------------
\* Constant-mask operands (SolidPixel _solidOpt) and the A8 kernels.

\* _solidOpt after reset(): no operand holds a register.
SolidPixelReset ==
  [sa |-> Undef, sx |-> Undef, sy |-> Undef, px |-> Undef,
   ux |-> Undef, uy |-> Undef, vm |-> Undef, vn |-> Undef]

\* _mask after reset().
PipeCMaskReset == [sm |-> Undef, vm |-> Undef, vn |-> Undef]

\* The "Extras" step of cMaskInitA8: the scalar operands are broadcast to
\* vectors when more than one pixel is processed at a time.
A8ConvertToVec(o, maxPixels) ==
  IF maxPixels > 1
  THEN [o EXCEPT
          !.ux = IF IsValid(o.sx) /\ ~IsValid(o.ux) THEN o.sx ELSE o.ux,
          !.uy = IF IsValid(o.sy) /\ ~IsValid(o.uy) THEN o.sy ELSE o.uy]
  ELSE o

\* The solid branch of cMaskInitA8: source alpha sa (a one-lane register),
\* scalar mask sm (Undef without a mask), o0 the _solidOpt found on entry.
\* The result holds _solidOpt and the final content of the register sm,
\* which several branches use as the register of an operand and overwrite.
cMaskInitA8Solid(compOp, maxPixels, sa, sm, o0) ==
  LET hasMask == IsValid(sm)
      many == maxPixels > 1
      xm == i_div_255_u32(i_mul(sm, sa))
  IN
  CASE compOp = "SrcCopy" /\ ~hasMask ->
         [sm |-> sm,
          o |-> [o0 EXCEPT !.sa = sa, !.px = IF many THEN sa ELSE Undef]]
    [] compOp = "SrcCopy" /\ hasMask ->
         [sm |-> i_inv_u8(sm),
          o |-> A8ConvertToVec(
                  [o0 EXCEPT !.sx = i_add(i_mul(sa, sm), Splat(sa, 128)),
                             !.sy = i_inv_u8(sm)], maxPixels)]
    [] compOp = "SrcOver" /\ ~hasMask ->
         [sm |-> i_inv_u8(sm),
          o |-> A8ConvertToVec(
                  [o0 EXCEPT !.sx = i_sub(i_mul(sa, Splat(sa, 256)), sa),
                             !.sy = i_inv_u8(sm)], maxPixels)]
    [] compOp = "SrcOver" /\ hasMask ->
         [sm |-> i_inv_u8(xm),
          o |-> A8ConvertToVec(
                  [o0 EXCEPT !.sx = i_add(i_sub(i_mul(xm, Splat(xm, 256)), xm),
                                          Splat(xm, 128)),
                             !.sy = i_inv_u8(xm)], maxPixels)]
    [] compOp = "SrcIn" /\ ~hasMask ->
         [sm |-> sm,
          o |-> A8ConvertToVec(
                  [o0 EXCEPT !.sx = sa, !.ux = IF many THEN sa ELSE Undef],
                  maxPixels)]
    [] compOp = "SrcIn" /\ hasMask ->
         [sm |-> i_inv_u8(sm),
          o |-> A8ConvertToVec(
                  [o0 EXCEPT !.sx = i_add(i_div_255_u32(i_mul(sa, sm)),
                                          i_inv_u8(sm))], maxPixels)]
    [] compOp = "SrcOut" /\ ~hasMask ->
         [sm |-> sm,
          o |-> A8ConvertToVec(
                  [o0 EXCEPT !.sx = sa, !.ux = IF many THEN sa ELSE Undef],
                  maxPixels)]
    [] compOp = "SrcOut" /\ hasMask ->
         [sm |-> i_inv_u8(sm),
          o |-> A8ConvertToVec(
                  [o0 EXCEPT !.sx = i_div_255_u32(i_mul(sa, sm)),
                             !.sy = i_inv_u8(sm)], maxPixels)]
    [] compOp = "DstOut" /\ ~hasMask ->
         [sm |-> sm,
          o |-> A8ConvertToVec(
                  [o0 EXCEPT !.sx = i_inv_u8(sa),
                             !.ux = IF many THEN i_inv_u8(sa) ELSE Undef],
                  maxPixels)]
    [] compOp = "DstOut" /\ hasMask ->
         [sm |-> i_inv_u8(xm),
          o |-> A8ConvertToVec([o0 EXCEPT !.sx = i_inv_u8(xm)], maxPixels)]
    [] compOp = "Xor" /\ ~hasMask ->
         [sm |-> sm,
          o |-> A8ConvertToVec(
                  [o0 EXCEPT !.sx = sa,
                             !.ux = IF many THEN sa ELSE Undef,
                             !.uy = IF many THEN i_inv_u8(sa) ELSE Undef],
                  maxPixels)]
    [] compOp = "Xor" /\ hasMask ->
         [sm |-> sm,
          o |-> A8ConvertToVec(
                  [o0 EXCEPT !.sx = xm,
                             !.ux = IF many THEN xm ELSE Undef,
                             !.uy = IF many THEN v_inv255_u16(xm) ELSE Undef],
                  maxPixels)]
    [] compOp = "Plus" /\ ~hasMask ->
         [sm |-> sm, o |-> [o0 EXCEPT !.sa = sa, !.px = sa]]
    [] compOp = "Plus" /\ hasMask ->
         [sm |-> xm,
          o |-> [o0 EXCEPT !.sx = xm, !.px = IF many THEN xm ELSE Undef]]
    [] OTHER -> [sm |-> sm, o |-> A8ConvertToVec(o0, maxPixels)]

\* vMaskProcA8Gp: one A8 pixel, source alpha sa, destination alpha da and
\* the scalar mask msk (Undef without a mask).
vMaskProcA8Gp(compOp, sa, da, msk) ==
  LET hasMask == IsValid(msk)
      sm == IF hasMask THEN i_div_255_u32(i_mul(sa, msk)) ELSE sa
  IN
  CASE compOp = "SrcCopy" ->
         IF ~hasMask THEN sa
         ELSE i_div_255_u32(i_add(i_mul(da, i_inv_u8(msk)), i_mul(sa, msk)))
    [] compOp = "SrcOver" ->
         i_add(i_div_255_u32(i_mul(da, i_inv_u8(sm))), sm)
    [] compOp = "SrcIn" ->
         IF ~hasMask THEN i_div_255_u32(i_mul(da, sa))
         ELSE i_div_255_u32(
                i_mul(da, i_sub(i_add(sm, Splat(sm, 255)), msk)))
    [] compOp = "SrcOut" ->
         IF ~hasMask THEN i_div_255_u32(i_mul(i_inv_u8(da), sa))
         ELSE i_div_255_u32(i_add(i_mul(da, i_inv_u8(msk)),
                                  i_mul(sm, i_inv_u8(da))))
    [] compOp = "DstOut" ->
         i_div_255_u32(i_mul(da, i_inv_u8(sm)))
    [] compOp = "Xor" ->
         i_div_255_u32(i_add(i_mul(da, i_inv_u8(sm)),
                             i_mul(sm, i_inv_u8(da))))
    [] compOp = "Plus" -> i_adds_u8(da, sm)
    [] compOp = "AlphaInv" ->
         IF ~hasMask THEN i_inv_u8(da)
         ELSE i_div_255_u32(i_add(i_mul(i_inv_u8(da), msk),
                                  i_mul(i_inv_u8(msk), da)))
    [] OTHER -> Undef

\* cMaskProcA8Gp: one A8 pixel inside a constant-mask session.  o is
\* _solidOpt, msm is _mask->sm, hasMask is isLoopCMask().
cMaskProcA8Gp(compOp, isSolid, hasMask, o, msm, sa, da) ==
  LET blend == i_add(i_mul(da, o.sy), o.sx) IN
  CASE isSolid /\ compOp = "SrcCopy" ->
         IF ~hasMask THEN o.sa ELSE i_mul_257_hu16(blend)
    [] isSolid /\ compOp = "SrcOver" -> i_mul_257_hu16(blend)
    [] isSolid /\ compOp \in {"SrcIn", "DstOut"} ->
         i_div_255_u32(i_mul(da, o.sx))
    [] isSolid /\ compOp = "SrcOut" ->
         IF ~hasMask THEN i_div_255_u32(i_mul(i_inv_u8(da), o.sx))
         ELSE i_div_255_u32(i_add(i_mul(da, o.sy), i_mul(i_inv_u8(da), o.sx)))
    [] isSolid /\ compOp = "Xor" ->
         i_div_255_u32(i_add(i_mul(i_inv_u8(da), o.sx), i_mul(da, o.sy)))
    [] isSolid /\ compOp = "Plus" -> i_adds_u8(da, o.sx)
    [] OTHER -> vMaskProcA8Gp(compOp, sa, da, msm)

\* ------------------------------------------------------------------------
\* RGBA32 kernels.  A pixel is <<B, G, R, A>>; the operators modelled are
\* the Porter-Duff ones, Plus and Screen.  "HardLight" stands for the
\* operators cMaskInitRGBA32 has no solid specialisation for; its per-pixel
\* arithmetic is not modelled.

\* Unpacked alpha (ua) and inverted alpha (ui) of a pixel.
PixelUA(p) == v_expand_alpha_16(p)

PixelUI(p) == v_inv255_u16(v_expand_alpha_16(p))

\* x * 256 + 128: the subtraction of x left out.
Mul255Round_noSub(x) ==
  v_add_i16(v_mul_u16(x, Splat(x, 256)), Splat(x, 128))

\* v_sll_i16(x, 8) ; v_sub_i16(x, x, y) ; v_add_i16(x, x, 0x0080):
\* x * 255 + 128 on 16-bit lanes.
Mul255Round(x) ==
  v_add_i16(v_sub_i16(v_mul_u16(x, Splat(x, 256)), x), Splat(x, 128))

\* vNegRgb8W: the colour lanes are inverted, the alpha lane is kept.
vNegRgb8W(x) ==
  [k \in 1..Len(x) |-> IF k = AlphaLane(k) THEN x[k] ELSE 255 - x[k]]

\* x_fill_pixel_alpha: alpha set to 255.
x_fill_pixel_alpha(x) == vFillAlpha255W(x)

\* The solid branch of cMaskInitRGBA32: source sc, mask vector vm (Undef
\* without a mask).  `fresh` is the content of a register obtained from
\* newSimilarReg before anything was written to it; o0, pre0 and mvm0 are
\* _solidOpt, _solidPre and _mask->vm on entry.  The result holds the three
\* after the call.
cMaskInitRGBA32Solid(compOp, useDa, typeA, sc, vm, fresh, o0, pre0, mvm0) ==
  LET hasMask == IsValid(vm)
      xm == v_div255_u16(v_mul_u16(sc, vm))
      res(o) == [o |-> o, pre |-> pre0, mvm |-> mvm0]
  IN
  CASE compOp = "SrcCopy" ->
         IF ~hasMask THEN res([o0 EXCEPT !.px = sc])
         ELSE res([o0 EXCEPT
                     !.ux = v_add_i16(v_mul_u16(sc, vm), Splat(sc, 128)),
                     !.vn = v_inv255_u16(vm)])
    [] compOp = "SrcOver" ->
         IF ~hasMask
         THEN res([o0 EXCEPT !.ux = Mul255Round(sc), !.uy = PixelUI(sc)])
         ELSE res([o0 EXCEPT !.ux = Mul255Round(xm), !.uy = PixelUI(xm)])
    [] compOp \in {"SrcIn", "SrcOut"} ->
         IF ~hasMask THEN res([o0 EXCEPT !.ux = sc])
         ELSE res([o0 EXCEPT !.ux = xm, !.vn = v_inv255_u16(vm)])
    [] compOp \in {"SrcAtop", "Xor"} ->
         IF ~hasMask THEN res([o0 EXCEPT !.ux = sc, !.uy = PixelUI(sc)])
         ELSE res([o0 EXCEPT !.ux = xm, !.uy = PixelUI(xm)])
    [] compOp = "DstOver" ->
         res([o0 EXCEPT !.ux = IF hasMask THEN xm ELSE sc])
    [] compOp = "DstIn" ->
         IF ~hasMask THEN res([o0 EXCEPT !.ux = PixelUA(sc)])
         ELSE res([o0 EXCEPT !.ux = v_inv255_u16(v_div255_u16(
                                      v_mul_u16(PixelUI(sc), vm)))])
    [] compOp = "DstOut" ->
         IF ~hasMask
         THEN res([o0 EXCEPT !.ux = IF useDa THEN PixelUI(sc)
                                     ELSE vNegRgb8W(PixelUA(sc))])
         ELSE LET x == v_inv255_u16(v_div255_u16(
                         v_mul_u16(vm, PixelUA(sc))))
              IN res([o0 EXCEPT !.ux = IF useDa THEN x
                                        ELSE vFillAlpha255W(x)])
    [] compOp = "DstAtop" ->
         IF ~hasMask THEN res([o0 EXCEPT !.ux = sc, !.uy = PixelUA(sc)])
         ELSE res([o0 EXCEPT
                     !.ux = xm,
                     !.uy = v_expand_alpha_16(
                              v_add_i16(v_inv255_u16(vm), xm))])
    [] compOp = "Plus" ->
         res([o0 EXCEPT !.px = IF hasMask THEN v_packs_i16_u8(xm) ELSE sc])
    [] compOp = "Screen" ->
         IF ~hasMask
         THEN res([o0 EXCEPT !.ux = Mul255Round(sc),
                             !.uy = v_inv255_u16(fresh)])
         ELSE res([o0 EXCEPT !.ux = Mul255Round(xm),
                             !.uy = v_inv255_u16(xm)])
    [] OTHER ->
         IF typeA /\ hasMask
         THEN [o |-> o0, pre |-> xm, mvm |-> mvm0]
         ELSE [o |-> o0, pre |-> pre0, mvm |-> vm]

\* v_div255_u16 of the 16-bit sum of two lane products.
Div255Sum(a, b, c, d) ==
  v_div255_u16(v_add_i16(v_mul_u16(a, b), v_mul_u16(c, d)))

\* vMaskProcRGBA32Vec for one pixel: source s, destination d, mask vector
\* vm (Undef without a mask).  cvn is _mask->vn when the kernel runs in a
\* Variant session that cached the inverted mask, Undef otherwise
\* (vMaskProcRGBA32InvertMask).  The result is the packed pixel stored.
vMaskProcRGBA32Vec(compOp, useDa, s, d, vm, cvn) ==
  LET hasMask == IsValid(vm)
      da == PixelUA(d)
      di == PixelUI(d)
      sv == IF hasMask THEN v_div255_u16(v_mul_u16(s, vm)) ELSE s
      vn == IF IsValid(cvn) THEN cvn ELSE v_inv255_u16(vm)
  IN
  CASE compOp = "SrcCopy" ->
         IF ~hasMask THEN s
         ELSE v_packs_i16_u8(Div255Sum(d, vn, s, vm))
    [] compOp = "SrcOver" ->
         IF ~hasMask
         THEN v_add_i32(
                v_packs_i16_u8(v_div255_u16(v_mul_u16(d, PixelUI(s)))), s)
         ELSE v_packs_i16_u8(
                v_add_i16(v_div255_u16(v_mul_u16(d, PixelUI(sv))), sv))
    [] compOp = "SrcIn" ->
         IF ~hasMask THEN v_packs_i16_u8(v_div255_u16(v_mul_u16(da, s)))
         ELSE v_packs_i16_u8(
                Div255Sum(d, v_inv255_u16(vm),
                          v_div255_u16(v_mul_u16(da, s)), vm))
    [] compOp = "SrcOut" ->
         IF ~hasMask THEN v_packs_i16_u8(v_div255_u16(v_mul_u16(di, s)))
         ELSE v_packs_i16_u8(
                Div255Sum(d, v_inv255_u16(vm),
                          v_div255_u16(v_mul_u16(di, s)), vm))
    [] compOp = "SrcAtop" ->
         v_packs_i16_u8(Div255Sum(d, PixelUI(sv), da, sv))
    [] compOp = "DstOver" ->
         v_add_i32(v_packs_i16_u8(v_div255_u16(v_mul_u16(di, sv))), d)
    [] compOp = "DstIn" ->
         IF ~hasMask
         THEN v_packs_i16_u8(v_div255_u16(v_mul_u16(d, PixelUA(s))))
         ELSE v_packs_i16_u8(v_div255_u16(v_mul_u16(d,
                v_inv255_u16(v_div255_u16(v_mul_u16(PixelUI(s), vm))))))
    [] compOp = "DstOut" ->
         LET r == IF ~hasMask
                  THEN v_packs_i16_u8(v_div255_u16(v_mul_u16(d, PixelUI(s))))
                  ELSE v_packs_i16_u8(v_div255_u16(v_mul_u16(d,
                         v_inv255_u16(v_div255_u16(
                           v_mul_u16(PixelUA(s), vm))))))
         IN IF useDa THEN r ELSE x_fill_pixel_alpha(r)
    [] compOp = "DstAtop" ->
         IF ~hasMask
         THEN v_packs_i16_u8(Div255Sum(d, PixelUA(s), di, s))
         ELSE v_packs_i16_u8(
                Div255Sum(d, v_inv255_u16(v_div255_u16(
                               v_mul_u16(PixelUI(s), vm))),
                          di, sv))
    [] compOp = "Xor" ->
         v_packs_i16_u8(Div255Sum(d, PixelUI(sv), sv, di))
    [] compOp = "Plus" ->
         v_adds_u8(d, IF hasMask THEN v_packs_i16_u8(sv) ELSE s)
    [] compOp = "Screen" ->
         v_packs_i16_u8(
           v_add_i16(v_div255_u16(v_mul_u16(d, v_inv255_u16(sv))), sv))
    [] OTHER -> Undef

\* cMaskProcRGBA32Vec with the solid SrcCopy of an Opaque session storing
\* the unpacked operand.
cMaskProcRGBA32Vec_unpacked(compOp, isSolid, hasMask, useDa, o, mvm, mvn, s, d) ==
  IF isSolid /\ compOp = "SrcCopy" /\ ~hasMask THEN o.ux
  ELSE vMaskProcRGBA32Vec(compOp, useDa, s, d, mvm,
                          IF hasMask THEN mvn ELSE Undef)

\* cMaskProcRGBA32Vec for one pixel inside a constant-mask session: o is
\* _solidOpt, mvm and mvn are _mask->vm and _mask->vn, hasMask is
\* isLoopCMask(), s is what srcFetch returns.
cMaskProcRGBA32Vec(compOp, isSolid, hasMask, useDa, o, mvm, mvn, s, d) ==
  LET da == PixelUA(d)
      di == PixelUI(d)
  IN
  CASE isSolid /\ compOp = "SrcCopy" ->
         IF ~hasMask THEN o.px
         ELSE v_packs_i16_u8(v_mul257_hi_u16(
                v_add_i16(v_mul_u16(d, o.vn), o.ux)))
    [] isSolid /\ compOp \in {"SrcOver", "Screen"} ->
         v_packs_i16_u8(v_mul257_hi_u16(
           v_add_i16(v_mul_u16(d, o.uy), o.ux)))
    [] isSolid /\ compOp = "SrcIn" ->
         IF ~hasMask THEN v_packs_i16_u8(v_div255_u16(v_mul_u16(da, o.ux)))
         ELSE v_packs_i16_u8(Div255Sum(d, o.vn, da, o.ux))
    [] isSolid /\ compOp = "SrcOut" ->
         IF ~hasMask THEN v_packs_i16_u8(v_div255_u16(v_mul_u16(di, o.ux)))
         ELSE v_packs_i16_u8(Div255Sum(d, o.vn, di, o.ux))
    [] isSolid /\ compOp = "SrcAtop" ->
         v_packs_i16_u8(Div255Sum(d, o.uy, da, o.ux))
    [] isSolid /\ compOp = "DstOver" ->
         v_add_i32(v_packs_i16_u8(v_div255_u16(v_mul_u16(di, o.ux))), d)
    [] isSolid /\ compOp \in {"DstIn", "DstOut"} ->
         v_packs_i16_u8(v_div255_u16(v_mul_u16(d, o.ux)))
    [] isSolid /\ compOp \in {"DstAtop", "Xor"} ->
         IF useDa THEN v_packs_i16_u8(Div255Sum(d, o.uy, di, o.ux))
         ELSE v_packs_i16_u8(v_div255_u16(v_mul_u16(d, o.uy)))
    [] isSolid /\ compOp = "Plus" -> v_adds_u8(d, o.px)
    [] OTHER -> vMaskProcRGBA32Vec(compOp, useDa, s, d, mvm,
                                   IF hasMask THEN mvn ELSE Undef)

\* ------------------------------------------------------------------------
\* The CompOpPart of one pipeline and its constant-mask session.

\* Constant masks handed to cMaskInit.
Masks == {255, 96}

\* Solid source pixels (FetchSolidPart::_pixel).
SolidPixels(pixelType) ==
  IF pixelType = kA8 THEN {<<200>>} ELSE {<<40, 0, 80, 200>>}

A8CompOps ==
  {"SrcCopy", "SrcOver", "SrcIn", "SrcOut", "DstOut", "Xor", "Plus",
   "AlphaInv"}

RGBA32CompOps ==
  {"SrcCopy", "SrcOver", "SrcIn", "SrcOut", "SrcAtop", "DstOver", "DstIn",
   "DstOut", "DstAtop", "Xor", "Plus", "Screen", "HardLight"}

\* Operators whose RGBA32 kernels read hasDa().
DaCompOps == {"DstOut", "DstAtop", "Xor"}

\* The part after preparePart() and init(): operator, pixel type, source
\* (solid or not, pattern blit or not), lanes and pixel granularity.
PartConfigs ==
  { [pixelType |-> t, compOp |-> op, isSolid |-> so, hasDa |-> da,
     typeA |-> ta, maxPixels |-> n, pixelGranularity |-> g,
     alignedBlit |-> ab, sameFormat |-> sf,
     solid |-> px] :
      t \in {kA8, kRGBA32}, op \in A8CompOps \cup RGBA32CompOps,
      so \in BOOLEAN, da \in BOOLEAN, ta \in BOOLEAN, n \in {1, 8},
      g \in {1, 4}, ab \in BOOLEAN, sf \in BOOLEAN,
      px \in SolidPixels(kA8) \cup SolidPixels(kRGBA32) \cup {Undef} }

\* Configurations that differ only in a field no modelled code reads are
\* dropped: hasDa outside the operators that test it, the TypeA flag outside
\* the solid operators without a specialisation, the blit flags outside a
\* non-solid SrcCopy, the lane count of RGBA32.
PartConfigUsed(c) ==
  /\ c.compOp \in (IF c.pixelType = kA8 THEN A8CompOps ELSE RGBA32CompOps)
  /\ c.solid \in (IF c.isSolid THEN SolidPixels(c.pixelType) ELSE {Undef})
  /\ (~(c.pixelType = kRGBA32 /\ c.compOp \in DaCompOps) => c.hasDa)
  /\ (~(c.pixelType = kRGBA32 /\ c.isSolid /\ c.compOp = "HardLight")
        => ~c.typeA)
  /\ (~(~c.isSolid /\ c.compOp = "SrcCopy")
        => ~c.alignedBlit /\ ~c.sameFormat)
  /\ (c.pixelType = kRGBA32 => c.maxPixels = 8)

\* The session state the init and fini functions work on.
SessionReset ==
  [mask |-> PipeCMaskReset, solidOpt |-> SolidPixelReset, solidPre |-> Undef]

\* v_broadcast_u16 of a scalar to the lanes of an RGBA32 pixel.
v_broadcast_u16(x) ==
  IF IsValid(x) THEN <<x[1], x[1], x[1], x[1]>> ELSE Undef

\* An A8 init that keeps a vector mask without extracting its scalar.
cMaskInitA8_vmOnly(c, sm_, vm_, ss) ==
  [mask |-> [ss.mask EXCEPT !.sm = IF IsValid(vm_) THEN Undef ELSE sm_,
                            !.vm = vm_],
   solidOpt |-> ss.solidOpt, solidPre |-> ss.solidPre,
   loopType |-> IF IsValid(sm_) \/ IsValid(vm_) THEN "Variant" ELSE "Opaque"]

\* cMaskInitA8(sm_, vm_): the mask is recorded, the solid operands are
\* computed, and the loop type to open is Variant with a mask and Opaque
\* without.  ss is the session state on entry.
cMaskInitA8(c, sm_, vm_, ss) ==
  LET hasMask == IsValid(sm_) \/ IsValid(vm_)
      sm == IF IsValid(sm_) THEN sm_
            ELSE IF IsValid(vm_) THEN <<vm_[1]>> ELSE Undef
      m1 == IF hasMask THEN [ss.mask EXCEPT !.sm = sm, !.vm = vm_]
            ELSE ss.mask
      r == cMaskInitA8Solid(c.compOp, c.maxPixels, c.solid, sm, ss.solidOpt)
      loopType == IF hasMask THEN "Variant" ELSE "Opaque"
  IN
  IF c.isSolid
  THEN [mask |-> IF hasMask THEN [m1 EXCEPT !.sm = r.sm] ELSE m1,
        solidOpt |-> r.o, solidPre |-> ss.solidPre, loopType |-> loopType]
  ELSE [mask |-> IF IsValid(sm) /\ ~IsValid(vm_) /\ c.maxPixels > 1
                 THEN [m1 EXCEPT !.vm = sm] ELSE m1,
        solidOpt |-> ss.solidOpt, solidPre |-> ss.solidPre,
        loopType |-> loopType]

\* cMaskInitRGBA32(vm).
cMaskInitRGBA32(c, vm, fresh, ss) ==
  LET hasMask == IsValid(vm)
      r == cMaskInitRGBA32Solid(c.compOp, c.hasDa, c.typeA, c.solid, vm,
                                fresh, ss.solidOpt, ss.solidPre, ss.mask.vm)
      loopType == IF hasMask THEN "Variant" ELSE "Opaque"
  IN
  IF c.isSolid
  THEN [mask |-> [ss.mask EXCEPT !.vm = r.mvm],
        solidOpt |-> r.o, solidPre |-> r.pre, loopType |-> loopType]
  ELSE [mask |-> [ss.mask EXCEPT
                    !.vm = vm,
                    !.vn = IF c.compOp = "SrcCopy" /\ hasMask
                           THEN v_inv255_u16(vm) ELSE @],
        solidOpt |-> ss.solidOpt, solidPre |-> ss.solidPre,
        loopType |-> loopType]

\* A fini that resets the mask only.
cMaskFiniA8_keepSolid(c, ss) ==
  [mask |-> PipeCMaskReset, solidOpt |-> ss.solidOpt,
   solidPre |-> ss.solidPre]

cMaskFiniRGBA32_keepSolid(c, ss) ==
  [mask |-> PipeCMaskReset, solidOpt |-> ss.solidOpt,
   solidPre |-> ss.solidPre]

\* cMaskFiniA8 / cMaskFiniRGBA32: the solid operands are reset when the
\* source is solid, the mask always.
cMaskFiniA8(c, ss) ==
  [mask |-> PipeCMaskReset,
   solidOpt |-> IF c.isSolid THEN SolidPixelReset ELSE ss.solidOpt,
   solidPre |-> IF c.isSolid THEN Undef ELSE ss.solidPre]

cMaskFiniRGBA32(c, ss) ==
  [mask |-> PipeCMaskReset,
   solidOpt |-> IF c.isSolid THEN SolidPixelReset ELSE ss.solidOpt,
   solidPre |-> IF c.isSolid THEN Undef ELSE ss.solidPre]

\* cMaskProcA8Vec, solid SrcCopy: n > 1 A8 pixels inside a session.  The
\* other operators of the vector kernel are not modelled.
cMaskProcA8Vec(compOp, isSolid, hasMask, o, da) ==
  CASE isSolid /\ compOp = "SrcCopy" ->
         IF ~hasMask THEN o.px
         ELSE v_mul257_hi_u16(v_add_i16(v_mul_u16(da, o.uy), o.ux))
    [] OTHER -> Undef

\* ------------------------------------------------------------------------
\* The fetch hooks.  Each forwards to the destination and the source fetch
\* part; fetchMode follows the protocol the fetch parts are driven through:
\* enterN ; prefetchN ; (N-pixel fetches) ; postfetchN ; leaveN for more than
\* one pixel at a time, prefetch1 before one pixel at a time.  A hook called
\* out of that order leaves the mode "broken".

FetchModes == {"none", "one", "entered", "N", "postfetched", "broken"}

\* prefetch1()
prefetch1(m) == IF m \in {"none", "one"} THEN "one" ELSE "broken"

\* enterN()
enterN(m) == IF m \in {"none", "one"} THEN "entered" ELSE "broken"

\* leaveN() that leaves the N-pixel mode open.
leaveN_skipped(m) == IF m = "postfetched" THEN "N" ELSE "broken"

\* leaveN()
leaveN(m) == IF m = "postfetched" THEN "none" ELSE "broken"

\* prefetchN()
prefetchN(m) == IF m = "entered" THEN "N" ELSE "broken"

\* postfetchN()
postfetchN(m) == IF m = "N" THEN "postfetched" ELSE "broken"

\* ------------------------------------------------------------------------
\* The emitted loop of cMaskGenericLoopVec, one action per basic block.

\* Index of the pixel the pointer p addresses, counted from the span start.
PixelIndex(p) == (p - lp.ptr0) \div Bpp(lp.pixelType)

\* The kernel cMaskProcStoreAdvance runs for n pixels at a time, applied to
\* the destination pixel d and the pixel s a source fetch returns: the
\* pixel that is stored.
cMaskProcOn(c, loopType, msk, o, n, s, d) ==
  IF c.pixelType = kA8
  THEN IF n = 1
       THEN cMaskProcA8Gp(c.compOp, c.isSolid, loopType = "Variant", o,
                          msk.sm, s, d)
       ELSE cMaskProcA8Vec(c.compOp, c.isSolid, loopType = "Variant", o, d)
  ELSE cMaskProcRGBA32Vec(c.compOp, c.isSolid, loopType = "Variant",
                          c.hasDa, o, msk.vm, msk.vn, s, d)

\* The kernel of the part in its current session.
cMaskProc(n, s, d) ==
  cMaskProcOn(cfg, cMaskLoopType, mask, solidOpt, n, s, d)

\* cMaskProcStoreAdvance(dPtr, n, alignment [, predicate]): run the kernel
\* on n lanes, store `cnt` of them (n, or the predicate's count) and advance.
cMaskProcStoreAdvance(n, alignment, cnt) ==
  /\ consumed < RunCap
  /\ consumed' = consumed + cnt
  /\ dPtr' = dPtr + cnt * Bpp(lp.pixelType)
  /\ lastStore' = [n |-> n, alignment |-> alignment, at |-> dPtr,
                   cnt |-> cnt, fetch |-> fetchMode]
  /\ dstBuf' = [k \in DOMAIN dstBuf |->
                  IF k >= PixelIndex(dPtr) /\ k < PixelIndex(dPtr) + cnt
                  THEN cMaskProc(n, cfg.solid, dstBuf[k]) ELSE dstBuf[k]]

NoStore == UNCHANGED <<dPtr, consumed, lastStore, dstBuf>>

\* BL_ASSERT(0) of the 16 and 32 pixel shapes: without masked memory access
\* the tail cannot be emitted and code generation aborts.
Vec_TailAssert ==
  /\ pc = "entry"
  /\ lp.maxPixels \in {16, 32}
  /\ ~lp.maskedAccess
  /\ pc' = "assert"
  /\ UNCHANGED <<lp, dstAlignment, i, fetchMode>>
  /\ NoStore
  /\ LoopOnly

\* maxPixels == 1
Vec1_Entry ==
  /\ pc = "entry"
  /\ lp.maxPixels = 1
  /\ fetchMode' = prefetch1(fetchMode)
  /\ pc' = "v1.L_Loop"
  /\ UNCHANGED <<lp, dstAlignment, i>>
  /\ NoStore
  /\ LoopOnly

Vec1_L_Loop ==
  /\ pc = "v1.L_Loop"
  /\ cMaskProcStoreAdvance(1, 1, 1)
  /\ i' = i - 1
  /\ pc' = IF i' # 0 THEN "v1.L_Loop" ELSE "exit"
  /\ UNCHANGED <<lp, dstAlignment, fetchMode>>
  /\ LoopOnly

\* maxPixels == 4, minAlignment == 1
Vec4_Entry ==
  /\ pc = "entry"
  /\ lp.maxPixels = 4
  /\ lp.minAlignment = 1
  /\ i' = i - 4
  /\ IF SubCarry(i, 4)
     THEN pc' = "v4.L_Skip4" /\ UNCHANGED fetchMode
     ELSE pc' = "v4.L_Loop4" /\ fetchMode' = prefetchN(enterN(fetchMode))
  /\ UNCHANGED <<lp, dstAlignment>>
  /\ NoStore
  /\ LoopOnly

Vec4_L_Loop4 ==
  /\ pc = "v4.L_Loop4"
  /\ cMaskProcStoreAdvance(4, 1, 4)
  /\ i' = i - 4
  /\ IF ~SubCarry(i, 4)
     THEN pc' = "v4.L_Loop4" /\ UNCHANGED fetchMode
     ELSE pc' = "v4.L_Skip4" /\ fetchMode' = leaveN(postfetchN(fetchMode))
  /\ UNCHANGED <<lp, dstAlignment>>
  /\ LoopOnly

Vec4_L_Skip4 ==
  /\ pc = "v4.L_Skip4"
  /\ fetchMode' = prefetch1(fetchMode)
  /\ i' = i + 4
  /\ pc' = IF i' = 0 THEN "exit" ELSE "v4.L_Loop1"
  /\ UNCHANGED <<lp, dstAlignment>>
  /\ NoStore
  /\ LoopOnly

Vec4_L_Loop1 ==
  /\ pc = "v4.L_Loop1"
  /\ cMaskProcStoreAdvance(1, 1, 1)
  /\ i' = i - 1
  /\ pc' = IF i' # 0 THEN "v4.L_Loop1" ELSE "exit"
  /\ UNCHANGED <<lp, dstAlignment, fetchMode>>
  /\ LoopOnly

\* maxPixels == 4, minAlignment != 1
Vec4A_Entry ==
  /\ pc = "entry"
  /\ lp.maxPixels = 4
  /\ lp.minAlignment # 1
  /\ pc' = IF PtrTest(dPtr) = 0 /\ CmpAe(i, 4)
           THEN "v4a.L_Aligned" ELSE "v4a.L_Unaligned"
  /\ UNCHANGED <<lp, dstAlignment, i, fetchMode>>
  /\ NoStore
  /\ LoopOnly

Vec4A_L_Unaligned ==
  /\ pc = "v4a.L_Unaligned"
  /\ fetchMode' = prefetch1(fetchMode)
  /\ pc' = "v4a.L_Loop1"
  /\ UNCHANGED <<lp, dstAlignment, i>>
  /\ NoStore
  /\ LoopOnly

Vec4A_L_Loop1 ==
  /\ pc = "v4a.L_Loop1"
  /\ cMaskProcStoreAdvance(1, 1, 1)
  /\ i' = i - 1
  /\ pc' = IF i' = 0 THEN "exit"
           ELSE IF PtrTest(dPtr') # 0 THEN "v4a.L_Loop1"
           ELSE IF ~CmpAe(i', 4) THEN "v4a.L_Loop1"
           ELSE "v4a.L_Aligned"
  /\ UNCHANGED <<lp, dstAlignment, fetchMode>>
  /\ LoopOnly

Vec4A_L_Aligned ==
  /\ pc = "v4a.L_Aligned"
  /\ i' = i - 4
  /\ dstAlignment' = 16
  /\ fetchMode' = prefetchN(enterN(fetchMode))
  /\ pc' = "v4a.L_Loop4"
  /\ UNCHANGED lp
  /\ NoStore
  /\ LoopOnly

Vec4A_L_Loop4 ==
  /\ pc = "v4a.L_Loop4"
  /\ cMaskProcStoreAdvance(4, 16, 4)
  /\ IF ~SubCarry(i, 4)
     THEN /\ i' = i - 4
          /\ pc' = "v4a.L_Loop4"
          /\ UNCHANGED <<fetchMode, dstAlignment>>
     ELSE /\ i' = (i - 4) + 4
          /\ fetchMode' = prefetch1(leaveN(postfetchN(fetchMode)))
          /\ dstAlignment' = 0
          /\ pc' = IF i' # 0 THEN "v4a.L_Loop1" ELSE "exit"
  /\ UNCHANGED lp
  /\ LoopOnly

\* maxPixels == 8, minAlignment == 1
Vec8_Entry ==
  /\ pc = "entry"
  /\ lp.maxPixels = 8
  /\ lp.minAlignment = 1
  /\ IF SubCarry(i, 4)
     THEN i' = i - 4 /\ pc' = "v8.L_Skip4" /\ UNCHANGED fetchMode
     ELSE /\ fetchMode' = prefetchN(enterN(fetchMode))
          /\ i' = (i - 4) - 4
          /\ pc' = IF SubCarry(i - 4, 4) THEN "v8.L_Skip8" ELSE "v8.L_Loop8"
  /\ UNCHANGED <<lp, dstAlignment>>
  /\ NoStore
  /\ LoopOnly

Vec8_L_Loop8 ==
  /\ pc = "v8.L_Loop8"
  /\ cMaskProcStoreAdvance(8, 1, 8)
  /\ i' = i - 8
  /\ pc' = IF ~SubCarry(i, 8) THEN "v8.L_Loop8" ELSE "v8.L_Skip8"
  /\ UNCHANGED <<lp, dstAlignment, fetchMode>>
  /\ LoopOnly

\* L_Skip8 with the branch on the carry flag inverted (jc for jnc).
Vec8_L_Skip8_jc ==
  /\ pc = "v8.L_Skip8"
  /\ i' = i + 4
  /\ pc' = IF AddCarry(i, 4) THEN "v8.L_Init1" ELSE "v8.L_Loop4"
  /\ UNCHANGED <<lp, dstAlignment, fetchMode>>
  /\ NoStore
  /\ LoopOnly

Vec8_L_Skip8 ==
  /\ pc = "v8.L_Skip8"
  /\ i' = i + 4
  /\ pc' = IF ~AddCarry(i, 4) THEN "v8.L_Init1" ELSE "v8.L_Loop4"
  /\ UNCHANGED <<lp, dstAlignment, fetchMode>>
  /\ NoStore
  /\ LoopOnly

Vec8_L_Loop4 ==
  /\ pc = "v8.L_Loop4"
  /\ cMaskProcStoreAdvance(4, 1, 4)
  /\ i' = i - 4
  /\ pc' = IF ~SubCarry(i, 4) THEN "v8.L_Loop4" ELSE "v8.L_Init1"
  /\ UNCHANGED <<lp, dstAlignment, fetchMode>>
  /\ LoopOnly

Vec8_L_Init1 ==
  /\ pc = "v8.L_Init1"
  /\ fetchMode' = leaveN(postfetchN(fetchMode))
  /\ pc' = "v8.L_Skip4"
  /\ UNCHANGED <<lp, dstAlignment, i>>
  /\ NoStore
  /\ LoopOnly

Vec8_L_Skip4 ==
  /\ pc = "v8.L_Skip4"
  /\ fetchMode' = prefetch1(fetchMode)
  /\ i' = i + 4
  /\ pc' = IF i' = 0 THEN "exit" ELSE "v8.L_Loop1"
  /\ UNCHANGED <<lp, dstAlignment>>
  /\ NoStore
  /\ LoopOnly

Vec8_L_Loop1 ==
  /\ pc = "v8.L_Loop1"
  /\ cMaskProcStoreAdvance(1, 1, 1)
  /\ i' = i - 1
  /\ pc' = IF i' # 0 THEN "v8.L_Loop1" ELSE "exit"
  /\ UNCHANGED <<lp, dstAlignment, fetchMode>>
  /\ LoopOnly

\* Vec8A_Entry without the test of the pointer.
Vec8A_Entry_notest ==
  /\ pc = "entry"
  /\ lp.maxPixels = 8
  /\ lp.minAlignment # 1
  /\ pc' = "v8a.L_Aligned"
  /\ UNCHANGED <<lp, dstAlignment, i, fetchMode>>
  /\ NoStore
  /\ LoopOnly

\* maxPixels == 8, minAlignment != 1
Vec8A_Entry ==
  /\ pc = "entry"
  /\ lp.maxPixels = 8
  /\ lp.minAlignment # 1
  /\ IF PtrTest(dPtr) = 0
     THEN pc' = "v8a.L_Aligned" /\ UNCHANGED fetchMode
     ELSE pc' = "v8a.L_Loop1" /\ fetchMode' = prefetch1(fetchMode)
  /\ UNCHANGED <<lp, dstAlignment, i>>
  /\ NoStore
  /\ LoopOnly

Vec8A_L_Loop1 ==
  /\ pc = "v8a.L_Loop1"
  /\ cMaskProcStoreAdvance(1, 1, 1)
  /\ i' = i - 1
  /\ pc' = IF i' = 0 THEN "exit"
           ELSE IF PtrTest(dPtr') # 0 THEN "v8a.L_Loop1"
           ELSE "v8a.L_Aligned"
  /\ UNCHANGED <<lp, dstAlignment, fetchMode>>
  /\ LoopOnly

Vec8A_L_Aligned ==
  /\ pc = "v8a.L_Aligned"
  /\ IF ~CmpAe(i, 4)
     THEN pc' = "v8a.L_Loop1" /\ UNCHANGED <<i, fetchMode, dstAlignment>>
     ELSE /\ dstAlignment' = 16
          /\ fetchMode' = prefetchN(enterN(fetchMode))
          /\ i' = i - 8
          /\ pc' = IF SubCarry(i, 8) THEN "v8a.L_Skip8" ELSE "v8a.L_Loop8"
  /\ UNCHANGED lp
  /\ NoStore
  /\ LoopOnly

Vec8A_L_Loop8 ==
  /\ pc = "v8a.L_Loop8"
  /\ cMaskProcStoreAdvance(8, lp.minAlignment, 8)
  /\ i' = i - 8
  /\ pc' = IF ~SubCarry(i, 8) THEN "v8a.L_Loop8" ELSE "v8a.L_Skip8"
  /\ UNCHANGED <<lp, dstAlignment, fetchMode>>
  /\ LoopOnly

\* add i, 4 ; jnc L_Skip4 : nothing is stored when the carry is clear.
Vec8A_L_Skip8_Skip ==
  /\ pc = "v8a.L_Skip8"
  /\ ~AddCarry(i, 4)
  /\ i' = i + 4
  /\ pc' = "v8a.L_Skip4"
  /\ UNCHANGED <<lp, dstAlignment, fetchMode>>
  /\ NoStore
  /\ LoopOnly

\* add i, 4 ; carry set: one aligned 4-pixel body, then sub i, 4.
Vec8A_L_Skip8_Body4 ==
  /\ pc = "v8a.L_Skip8"
  /\ AddCarry(i, 4)
  /\ cMaskProcStoreAdvance(4, lp.minAlignment, 4)
  /\ i' = (i + 4) - 4
  /\ pc' = "v8a.L_Skip4"
  /\ UNCHANGED <<lp, dstAlignment, fetchMode>>
  /\ LoopOnly

Vec8A_L_Skip4 ==
  /\ pc = "v8a.L_Skip4"
  /\ fetchMode' = prefetch1(leaveN(postfetchN(fetchMode)))
  /\ dstAlignment' = 0
  /\ i' = i + 4
  /\ pc' = IF i' # 0 THEN "v8a.L_Loop1" ELSE "exit"
  /\ UNCHANGED lp
  /\ NoStore
  /\ LoopOnly

\* maxPixels == 16
Vec16_Entry ==
  /\ pc = "entry"
  /\ lp.maxPixels = 16
  /\ lp.maskedAccess
  /\ fetchMode' = prefetchN(enterN(fetchMode))
  /\ i' = i - 16
  /\ pc' = IF SubCarry(i, 16) THEN "v16.L_Skip16" ELSE "v16.L_Loop16"
  /\ UNCHANGED <<lp, dstAlignment>>
  /\ NoStore
  /\ LoopOnly

Vec16_L_Loop16 ==
  /\ pc = "v16.L_Loop16"
  /\ cMaskProcStoreAdvance(16, 1, 16)
  /\ i' = i - 16
  /\ pc' = IF ~SubCarry(i, 16) THEN "v16.L_Loop16" ELSE "v16.L_Skip16"
  /\ UNCHANGED <<lp, dstAlignment, fetchMode>>
  /\ LoopOnly

\* L_Skip16 without the jz: the tail runs on an empty remainder as well.
Vec16_L_Skip16_nojz ==
  /\ pc = "v16.L_Skip16"
  /\ i' = i + 16
  /\ pc' = IF lp.simd512 THEN "v16.Tail16"
           ELSE IF SubCarry(i', 8) THEN "v16.L_Skip8"
           ELSE "v16.Body8"
  /\ UNCHANGED <<lp, dstAlignment, fetchMode>>
  /\ NoStore
  /\ LoopOnly

Vec16_L_Skip16 ==
  /\ pc = "v16.L_Skip16"
  /\ i' = i + 16
  /\ pc' = IF i' = 0 THEN "v16.L_Exit"
           ELSE IF lp.simd512 THEN "v16.Tail16"
           ELSE IF SubCarry(i', 8) THEN "v16.L_Skip8"
           ELSE "v16.Body8"
  /\ UNCHANGED <<lp, dstAlignment, fetchMode>>
  /\ NoStore
  /\ LoopOnly

\* 512-bit SIMD: one predicated 16-lane body that stores i lanes.
Vec16_Tail16 ==
  /\ pc = "v16.Tail16"
  /\ cMaskProcStoreAdvance(16, 1, i)
  /\ pc' = "v16.L_Exit"
  /\ UNCHANGED <<lp, dstAlignment, i, fetchMode>>
  /\ LoopOnly

Vec16_Body8 ==
  /\ pc = "v16.Body8"
  /\ cMaskProcStoreAdvance(8, 1, 8)
  /\ i' = i - 8
  /\ pc' = IF i' = 0 THEN "v16.L_Exit" ELSE "v16.L_Skip8"
  /\ UNCHANGED <<lp, dstAlignment, fetchMode>>
  /\ LoopOnly

\* Predicated 8-lane body that stores i lanes.
Vec16_L_Skip8 ==
  /\ pc = "v16.L_Skip8"
  /\ cMaskProcStoreAdvance(8, 1, i)
  /\ pc' = "v16.L_Exit"
  /\ UNCHANGED <<lp, dstAlignment, i, fetchMode>>
  /\ LoopOnly

Vec16_L_Exit ==
  /\ pc = "v16.L_Exit"
  /\ fetchMode' = leaveN(postfetchN(fetchMode))
  /\ pc' = "exit"
  /\ UNCHANGED <<lp, dstAlignment, i>>
  /\ NoStore
  /\ LoopOnly

\* maxPixels == 32
Vec32_Entry ==
  /\ pc = "entry"
  /\ lp.maxPixels = 32
  /\ lp.maskedAccess
  /\ fetchMode' = prefetchN(enterN(fetchMode))
  /\ i' = i - 32
  /\ pc' = IF SubCarry(i, 32) THEN "v32.L_Skip32" ELSE "v32.L_Loop32"
  /\ UNCHANGED <<lp, dstAlignment>>
  /\ NoStore
  /\ LoopOnly

Vec32_L_Loop32 ==
  /\ pc = "v32.L_Loop32"
  /\ cMaskProcStoreAdvance(32, 1, 32)
  /\ i' = i - 32
  /\ pc' = IF ~SubCarry(i, 32) THEN "v32.L_Loop32" ELSE "v32.L_Skip32"
  /\ UNCHANGED <<lp, dstAlignment, fetchMode>>
  /\ LoopOnly

Vec32_L_Skip32 ==
  /\ pc = "v32.L_Skip32"
  /\ IF i + 32 = 0
     THEN i' = i + 32 /\ pc' = "v32.L_Exit"
     ELSE /\ i' = (i + 32) - 8
          /\ pc' = IF SubCarry(i + 32, 8) THEN "v32.L_Skip8"
                   ELSE "v32.L_Loop8"
  /\ UNCHANGED <<lp, dstAlignment, fetchMode>>
  /\ NoStore
  /\ LoopOnly

Vec32_L_Loop8 ==
  /\ pc = "v32.L_Loop8"
  /\ cMaskProcStoreAdvance(8, 1, 8)
  /\ i' = i - 8
  /\ pc' = IF ~SubCarry(i, 8) THEN "v32.L_Loop8" ELSE "v32.L_Skip8"
  /\ UNCHANGED <<lp, dstAlignment, fetchMode>>
  /\ LoopOnly

\* add i, 8 ; jz L_Exit
Vec32_L_Skip8 ==
  /\ pc = "v32.L_Skip8"
  /\ i' = i + 8
  /\ pc' = IF i' = 0 THEN "v32.L_Exit" ELSE "v32.Tail8"
  /\ UNCHANGED <<lp, dstAlignment, fetchMode>>
  /\ NoStore
  /\ LoopOnly

\* Predicated 8-lane body that stores i lanes.
Vec32_Tail8 ==
  /\ pc = "v32.Tail8"
  /\ cMaskProcStoreAdvance(8, 1, i)
  /\ pc' = "v32.L_Exit"
  /\ UNCHANGED <<lp, dstAlignment, i, fetchMode>>
  /\ LoopOnly

Vec32_L_Exit ==
  /\ pc = "v32.L_Exit"
  /\ fetchMode' = leaveN(postfetchN(fetchMode))
  /\ pc' = "exit"
  /\ UNCHANGED <<lp, dstAlignment, i>>
  /\ NoStore
  /\ LoopOnly

\* The destination before the loop runs.
DstInit(pixelType) ==
  [k \in 0..(BufLen - 1) |->
     IF pixelType = kA8 THEN <<17>> ELSE <<10, 20, 30, 40>>]

\* The part the loop model is emitted for: SrcCopy of a solid source, in the
\* session cMaskInitOpaque opens.
LoopPart(c) ==
  [pixelType |-> c.pixelType, compOp |-> "SrcCopy", isSolid |-> TRUE,
   hasDa |-> TRUE, typeA |-> FALSE, maxPixels |-> c.maxPixels,
   pixelGranularity |-> IF c.path = "cMaskGranularLoopVec" THEN 4 ELSE 1,
   alignedBlit |-> FALSE, sameFormat |-> FALSE,
   solid |-> CHOOSE px \in SolidPixels(c.pixelType) : TRUE]

\* ------------------------------------------------------------------------
\* The emitted loop of vMaskGenericLoop, one action per basic block.  The
\* mask pointer advances with the destination pointer, one byte per pixel.

\* The mask byte of the pixel at index k of the span.
MaskAt(k) == IF k % 3 = 0 THEN 255 ELSE 96

\* vMaskProcA8Vec, SrcCopy: n > 1 A8 pixels under the mask vector vm.  The
\* other operators of the vector kernel are not modelled.
vMaskProcA8Vec(compOp, sa, da, vm) ==
  CASE compOp = "SrcCopy" ->
         IF ~IsValid(vm) THEN sa
         ELSE v_div255_u16(v_add_i16(v_mul_u16(da, v_inv255_u16(vm)),
                                     v_mul_u16(sa, vm)))
    [] OTHER -> Undef

\* The pixel vMaskGenericStep(dPtr, n, mPtr, ga) stores over the destination
\* pixel d under the mask byte m, without a global alpha: the scalar kernel
\* for one A8 pixel, the vector kernels otherwise.
vMaskGenericStepPixel(c, n, s, d, m) ==
  IF c.pixelType = kA8
  THEN IF n = 1 THEN vMaskProcA8Gp(c.compOp, s, d, <<m>>)
       ELSE vMaskProcA8Vec(c.compOp, s, d, <<m>>)
  ELSE vMaskProcRGBA32Vec(c.compOp, c.hasDa, s, d, <<m, m, m, m>>, Undef)

\* The kernels of the loop model's part on a destination pixel no step has
\* written yet, tabulated once by pixel type, by scalar or vector kernel and
\* by mask byte.
vMaskStepTable ==
  [t \in {kA8, kRGBA32} |->
     [scalar \in BOOLEAN |->
        [m \in {255, 96} |->
           LET c == LoopPart([pixelType |-> t, maxPixels |-> 1,
                              path |-> "vMaskGenericLoop"])
           IN vMaskGenericStepPixel(c, IF scalar THEN 1 ELSE 4, c.solid,
                                    DstInit(t)[0], m)]]]

\* The pixel a step of n lanes stores over d under the mask byte m.
vMaskStored(n, d, m) ==
  IF d = DstInit(cfg.pixelType)[0]
  THEN vMaskStepTable[cfg.pixelType][n = 1][m]
  ELSE vMaskGenericStepPixel(cfg, n, cfg.solid, d, m)

\* vMaskGenericStep(dPtr, n, mPtr, ga): n mask bytes are fetched, the kernel
\* runs on n lanes, n pixels are stored and both pointers advance.
vMaskGenericStep(n) ==
  /\ consumed < RunCap
  /\ consumed' = consumed + n
  /\ dPtr' = dPtr + n * Bpp(lp.pixelType)
  /\ lastStore' = [n |-> n, alignment |-> 1, at |-> dPtr, cnt |-> n,
                   fetch |-> fetchMode]
  /\ dstBuf' = [k \in DOMAIN dstBuf |->
                  IF k >= PixelIndex(dPtr) /\ k < PixelIndex(dPtr) + n
                  THEN vMaskStored(n, dstBuf[k], MaskAt(k))
                  ELSE dstBuf[k]]

\* if (maxPixels() >= 4) { sub i, 4 ; jc L_Loop4_Skip ; enterN ; prefetchN ;
\*   if (maxPixels() >= 8) { sub i, 4 ; jc L_Loop8_Skip } }
VMask_Entry ==
  /\ pc = "vm.entry"
  /\ IF lp.maxPixels < 4
     THEN pc' = "vm.L_Loop1_Iter" /\ UNCHANGED <<i, fetchMode>>
     ELSE IF SubCarry(i, 4)
     THEN pc' = "vm.L_Loop4_Skip" /\ i' = i - 4 /\ UNCHANGED fetchMode
     ELSE /\ fetchMode' = prefetchN(enterN(fetchMode))
          /\ IF lp.maxPixels < 8
             THEN pc' = "vm.L_Loop4_Iter" /\ i' = i - 4
             ELSE /\ i' = (i - 4) - 4
                  /\ pc' = IF SubCarry(i - 4, 4) THEN "vm.L_Loop8_Skip"
                           ELSE "vm.L_Loop8_Iter"
  /\ UNCHANGED <<lp, dstAlignment>>
  /\ NoStore
  /\ LoopOnly

VMask_L_Loop8_Iter ==
  /\ pc = "vm.L_Loop8_Iter"
  /\ vMaskGenericStep(8)
  /\ i' = i - 8
  /\ pc' = IF ~SubCarry(i, 8) THEN "vm.L_Loop8_Iter" ELSE "vm.L_Loop8_Skip"
  /\ UNCHANGED <<lp, dstAlignment, fetchMode>>
  /\ LoopOnly

\* L_Loop8_Skip without the js: the 4-pixel loop is always entered.
VMask_L_Loop8_Skip_nojs ==
  /\ pc = "vm.L_Loop8_Skip"
  /\ i' = i + 4
  /\ pc' = "vm.L_Loop4_Iter"
  /\ UNCHANGED <<lp, dstAlignment, fetchMode>>
  /\ NoStore
  /\ LoopOnly

\* add i, 4 ; js L_Loop4_Skip
VMask_L_Loop8_Skip ==
  /\ pc = "vm.L_Loop8_Skip"
  /\ i' = i + 4
  /\ pc' = IF i' < 0 THEN "vm.L_Loop4_Skip" ELSE "vm.L_Loop4_Iter"
  /\ UNCHANGED <<lp, dstAlignment, fetchMode>>
  /\ NoStore
  /\ LoopOnly

VMask_L_Loop4_Iter ==
  /\ pc = "vm.L_Loop4_Iter"
  /\ vMaskGenericStep(4)
  /\ i' = i - 4
  /\ IF ~SubCarry(i, 4)
     THEN pc' = "vm.L_Loop4_Iter" /\ UNCHANGED fetchMode
     ELSE pc' = "vm.L_Loop4_Skip" /\ fetchMode' = leaveN(postfetchN(fetchMode))
  /\ UNCHANGED <<lp, dstAlignment>>
  /\ LoopOnly

\* prefetch1 ; add i, 4 ; jz L_Done
VMask_L_Loop4_Skip ==
  /\ pc = "vm.L_Loop4_Skip"
  /\ fetchMode' = prefetch1(fetchMode)
  /\ i' = i + 4
  /\ pc' = IF i' = 0 THEN "exit" ELSE "vm.L_Loop1_Iter"
  /\ UNCHANGED <<lp, dstAlignment>>
  /\ NoStore
  /\ LoopOnly

VMask_L_Loop1_Iter ==
  /\ pc = "vm.L_Loop1_Iter"
  /\ vMaskGenericStep(1)
  /\ i' = i - 1
  /\ pc' = IF i' # 0 THEN "vm.L_Loop1_Iter" ELSE "exit"
  /\ UNCHANGED <<lp, dstAlignment, fetchMode>>
  /\ LoopOnly

vMaskGenericLoop ==
  \/ VMask_Entry \/ VMask_L_Loop8_Iter \/ VMask_L_Loop8_Skip
  \/ VMask_L_Loop4_Iter \/ VMask_L_Loop4_Skip \/ VMask_L_Loop1_Iter

\* Pixel k of the source image the non-solid source part reads.
SrcAt(pixelType, k) ==
  IF pixelType = kA8 THEN <<(k * 37 + 11) % 256>>
  ELSE LET a == 255 - 20 * k IN <<a \div 2, k, a - k, a>>

\* srcPart()->fetch(p, n, ...): n pixels; a solid source repeats its pixel,
\* any other source continues where the previous fetch ended.
srcPartFetch(c, x, n) ==
  [k \in 1..n |-> IF c.isSolid THEN c.solid
                  ELSE SrcAt(c.pixelType, x + k - 1)]

\* The 16 bytes of the register enterPartialMode fetches four pixels into:
\* unpacked alpha (kUA, 16 bits per pixel) for A8, packed pixels (kPC) for
\* RGBA32.
PartialRegister(pixelType, px) ==
  [b \in 1..16 |->
     IF pixelType = kRGBA32 THEN px[((b - 1) \div 4) + 1][((b - 1) % 4) + 1]
     ELSE IF b <= 8 /\ b % 2 = 1 THEN px[(b + 1) \div 2][1]
     ELSE 0]

\* v_srlb_u128: the register shifted right by n bytes, zeros shifted in.
v_srlb_u128(x, n) ==
  [b \in 1..Len(x) |-> IF b + n <= Len(x) THEN x[b + n] ELSE 0]

\* v_extract_u16(dst, src, 0)
v_extract_u16(x) == <<x[1] + 256 * x[2]>>

\* The pixel a single-pixel srcFetch takes from _partialPixel.
PartialFetch(pixelType, x) ==
  IF pixelType = kA8 THEN v_extract_u16(x) ELSE SubSeq(x, 1, 4)

NoPartialHist == [base |-> Undef, shifts |-> 0]

\* ------------------------------------------------------------------------
\* The emitted loop of cMaskGranularLoopVec, one action per basic block.
\* enterPartialMode, nextPartialPixel and exitPartialMode emit the fetch and
\* the shifts of the partial pixel; they store nothing and leave the counter
\* alone.

\* BL_ASSERT(pixelGranularity() == 4), then the shape for maxPixels();
\* BL_NOT_REACHED() when there is none.
Gran_Entry ==
  /\ pc = "gr.entry"
  /\ IF cfg.pixelGranularity # 4 \/ lp.maxPixels \notin {1, 4, 8, 16}
     THEN pc' = "assert" /\ UNCHANGED i
     ELSE IF lp.maxPixels = 1 THEN pc' = "gr1.L_Loop" /\ UNCHANGED i
     ELSE IF lp.maxPixels = 4 THEN pc' = "gr4.L_Loop" /\ UNCHANGED i
     ELSE /\ i' = i - lp.maxPixels
          /\ pc' = IF SubCarry(i, lp.maxPixels) THEN "gr.L_Skip"
                   ELSE "gr.L_Loop_IterN"
  /\ UNCHANGED <<lp, dstAlignment, fetchMode>>
  /\ NoStore
  /\ LoopOnly

isUsingSolidPre == IsValid(solidPre)

\* What the granular loop leaves alone of the part and its history while it
\* fetches, shifts and drops the partial pixel.
PartialOnly ==
  UNCHANGED <<cfg, cMaskLoopType, cMaskLoopHook, mask, solidOpt, solidPre,
              aborted, lastCall, opened, closed, kernVars>>

\* maxPixels == 1, L_Loop: enterPartialMode() fetches four source pixels
\* into the partial pixel, unless the source is the precomputed solid pixel.
Gran1_L_Loop ==
  /\ pc = "gr1.L_Loop"
  /\ IF isUsingSolidPre
     THEN /\ pc' = "gr1.L_Step"
          /\ UNCHANGED <<isInPartialMode, partialPixel, partialHist, srcX>>
     ELSE IF isInPartialMode \/ cfg.pixelGranularity # 4
     THEN /\ pc' = "assert"
          /\ UNCHANGED <<isInPartialMode, partialPixel, partialHist, srcX>>
     ELSE /\ pc' = "gr1.L_Step"
          /\ LET px == srcPartFetch(cfg, srcX, cfg.pixelGranularity)
             IN /\ partialPixel' = PartialRegister(cfg.pixelType, px)
                /\ partialHist' = [base |-> px, shifts |-> 0]
          /\ srcX' = IF cfg.isSolid THEN srcX ELSE srcX + 4
          /\ isInPartialMode' = TRUE
  /\ UNCHANGED <<lp, dstAlignment, fetchMode, i>>
  /\ NoStore
  /\ PartialOnly

\* L_Step with a jump back to L_Step whatever the counter holds.
Gran1_L_Step_noexit ==
  /\ pc = "gr1.L_Step"
  /\ cMaskProcStoreAdvance(1, 1, 1)
  /\ i' = i - 1
  /\ IF isInPartialMode
     THEN /\ partialPixel' =
               v_srlb_u128(partialPixel,
                           IF cfg.pixelType = kA8 THEN 2 ELSE 4)
          /\ partialHist' = [partialHist EXCEPT !.shifts = @ + 1]
          /\ UNCHANGED isInPartialMode
     ELSE UNCHANGED <<isInPartialMode, partialPixel, partialHist>>
  /\ pc' = IF i' # 0 THEN "gr1.L_Step" ELSE "exit"
  /\ UNCHANGED <<lp, dstAlignment, fetchMode, srcX>>
  /\ PartialOnly

\* L_Step: the body ; sub i, 1 ; nextPartialPixel() shifts the partial pixel
\* by one pixel ; test i, 3 ; jnz L_Step ; exitPartialMode() drops the
\* partial pixel ; test i, i ; jnz L_Loop
Gran1_L_Step ==
  /\ pc = "gr1.L_Step"
  /\ cMaskProcStoreAdvance(1, 1, 1)
  /\ i' = i - 1
  /\ IF i' % 4 # 0
     THEN /\ pc' = "gr1.L_Step"
          /\ IF isInPartialMode
             THEN /\ partialPixel' =
                       v_srlb_u128(partialPixel,
                                   IF cfg.pixelType = kA8 THEN 2 ELSE 4)
                  /\ partialHist' = [partialHist EXCEPT !.shifts = @ + 1]
                  /\ UNCHANGED isInPartialMode
             ELSE UNCHANGED <<isInPartialMode, partialPixel, partialHist>>
     ELSE IF isUsingSolidPre
     THEN /\ pc' = IF i' # 0 THEN "gr1.L_Loop" ELSE "exit"
          /\ UNCHANGED <<isInPartialMode, partialPixel, partialHist>>
     ELSE IF ~isInPartialMode
     THEN /\ pc' = "assert"
          /\ UNCHANGED <<isInPartialMode, partialPixel, partialHist>>
     ELSE /\ pc' = IF i' # 0 THEN "gr1.L_Loop" ELSE "exit"
          /\ isInPartialMode' = FALSE
          /\ partialPixel' = Undef
          /\ partialHist' = [partialHist EXCEPT !.shifts = @ + 1]
  /\ UNCHANGED <<lp, dstAlignment, fetchMode, srcX>>
  /\ PartialOnly

\* maxPixels == 4
Gran4_L_Loop ==
  /\ pc = "gr4.L_Loop"
  /\ cMaskProcStoreAdvance(4, 1, 4)
  /\ i' = i - 4
  /\ pc' = IF i' # 0 THEN "gr4.L_Loop" ELSE "exit"
  /\ UNCHANGED <<lp, dstAlignment, fetchMode>>
  /\ LoopOnly

\* maxPixels == 8 and 16: L_Loop_Iter8, L_Loop_Iter16
Gran_L_Loop_IterN ==
  /\ pc = "gr.L_Loop_IterN"
  /\ cMaskProcStoreAdvance(lp.maxPixels, 1, lp.maxPixels)
  /\ i' = i - lp.maxPixels
  /\ pc' = IF ~SubCarry(i, lp.maxPixels) THEN "gr.L_Loop_IterN"
           ELSE "gr.L_Skip"
  /\ UNCHANGED <<lp, dstAlignment, fetchMode>>
  /\ LoopOnly

\* L_Skip without the jz: the 4-pixel tier always runs.
Gran_L_Skip_nojz ==
  /\ pc = "gr.L_Skip"
  /\ i' = i + lp.maxPixels
  /\ IF lp.maxPixels = 8
     THEN pc' = "exit" /\ cMaskProcStoreAdvance(4, 1, 4)
     ELSE pc' = "gr16.L_Loop_Iter4" /\ NoStore
  /\ UNCHANGED <<lp, dstAlignment, fetchMode>>
  /\ LoopOnly

\* L_Skip: add i, N ; jz L_End.  The 8-pixel shape then runs one 4-pixel
\* body and ends; the 16-pixel shape enters its 4-pixel loop.
Gran_L_Skip ==
  /\ pc = "gr.L_Skip"
  /\ i' = i + lp.maxPixels
  /\ IF i' = 0
     THEN pc' = "exit" /\ NoStore
     ELSE IF lp.maxPixels = 8
     THEN pc' = "exit" /\ cMaskProcStoreAdvance(4, 1, 4)
     ELSE pc' = "gr16.L_Loop_Iter4" /\ NoStore
  /\ UNCHANGED <<lp, dstAlignment, fetchMode>>
  /\ LoopOnly

Gran16_L_Loop_Iter4 ==
  /\ pc = "gr16.L_Loop_Iter4"
  /\ cMaskProcStoreAdvance(4, 1, 4)
  /\ i' = i - 4
  /\ pc' = IF i' # 0 THEN "gr16.L_Loop_Iter4" ELSE "exit"
  /\ UNCHANGED <<lp, dstAlignment, fetchMode>>
  /\ LoopOnly

cMaskGranularLoopVec ==
  \/ Gran_Entry \/ Gran1_L_Loop \/ Gran1_L_Step \/ Gran4_L_Loop \/ Gran_L_Loop_IterN
  \/ Gran_L_Skip \/ Gran16_L_Loop_Iter4

\* The history and kernel variables while they are not in use.
NoArgs == [sm |-> Undef, vm |-> Undef, fresh |-> Undef]

NoSession == [was |-> FALSE, m |-> Undef]

NoCall == [op |-> "none", arg |-> Undef, res |-> Undef]

HistIdle ==
  /\ srcX = 0
  /\ aborted = ""
  /\ lastCall = NoCall
  /\ opened = NoArgs
  /\ closed = NoSession
  /\ partialHist = [base |-> Undef, shifts |-> 0]

KernIdle ==
  /\ kin = Undef
  /\ kout = Undef

\* shouldJustCopyOpaqueFill without the test of the operator.
shouldJustCopyOpaqueFill_anyOp(c) ==
  c.isSolid \/ (c.alignedBlit /\ c.sameFormat)

\* shouldJustCopyOpaqueFill()
shouldJustCopyOpaqueFill(c) ==
  /\ c.compOp = "SrcCopy"
  /\ (c.isSolid \/ (c.alignedBlit /\ c.sameFormat))

\* x_inline_pixel_fill_loop: n pixels from index `at` on are set to px.
x_inline_pixel_fill_loop(buf, at, px, n) ==
  [k \in DOMAIN buf |-> IF k >= at /\ k < at + n THEN px ELSE buf[k]]

\* cMaskMemcpyOrMemsetLoop(i) for a solid source: the span is filled with
\* the packed solid pixel.  (The copy loop of a pattern blit reads the
\* source image, which the loop model does not hold.)
cMaskMemcpyOrMemsetLoop ==
  /\ pc = "fill"
  /\ IF shouldJustCopyOpaqueFill(cfg) /\ cfg.isSolid /\ IsValid(solidOpt.px)
     THEN /\ dstBuf' = x_inline_pixel_fill_loop(dstBuf, PixelIndex(dPtr),
                                                solidOpt.px, i)
          /\ consumed' = consumed + i
          /\ dPtr' = dPtr + i * Bpp(lp.pixelType)
          /\ i' = 0
          /\ pc' = "exit"
     ELSE /\ pc' = "assert"
          /\ UNCHANGED <<i, dPtr, consumed, dstBuf>>
  /\ UNCHANGED <<lp, dstAlignment, fetchMode, lastStore>>
  /\ LoopOnly

\* The caller has loaded the span length into i and the first pixel's
\* address into dPtr; no tier has run.
LoopInit ==
  /\ lp \in {c \in LoopConfigs : LoopConfigUsed(c)}
  /\ i = lp.len
  /\ dPtr = lp.ptr0
  /\ pc = CASE lp.path = "cMaskGenericLoopVec" -> "entry"
            [] lp.path = "cMaskMemcpyOrMemsetLoop" -> "fill"
            [] lp.path = "vMaskGenericLoop" -> "vm.entry"
            [] lp.path = "cMaskGranularLoopVec" -> "gr.entry"
  /\ consumed = 0
  /\ fetchMode = "none"
  /\ lastStore = [n |-> 0, alignment |-> 0, at |-> 0, cnt |-> 0,
                  fetch |-> "none"]
  /\ dstAlignment = 0
  /\ dstBuf = DstInit(lp.pixelType)
  /\ cfg = LoopPart(lp)
  /\ LET r == IF lp.path = "vMaskGenericLoop"
              THEN [mask |-> PipeCMaskReset, solidOpt |-> SolidPixelReset,
                    solidPre |-> Undef, loopType |-> "None"]
              ELSE IF cfg.pixelType = kA8
              THEN cMaskInitA8(cfg, Undef, Undef, SessionReset)
              ELSE cMaskInitRGBA32(cfg, Undef, Undef, SessionReset)
     IN /\ mask = r.mask
        /\ solidOpt = r.solidOpt
        /\ solidPre = r.solidPre
        /\ cMaskLoopType = r.loopType
  /\ cMaskLoopHook = IF lp.path = "vMaskGenericLoop" THEN "null" ELSE "cursor"
  /\ isInPartialMode = FALSE
  /\ partialPixel = Undef
  /\ HistIdle
  /\ KernIdle

cMaskGenericLoopVec ==
  \/ Vec_TailAssert
  \/ Vec1_Entry \/ Vec1_L_Loop
  \/ Vec4_Entry \/ Vec4_L_Loop4 \/ Vec4_L_Skip4 \/ Vec4_L_Loop1
  \/ Vec4A_Entry \/ Vec4A_L_Unaligned \/ Vec4A_L_Loop1 \/ Vec4A_L_Aligned
  \/ Vec4A_L_Loop4
  \/ Vec8_Entry \/ Vec8_L_Loop8 \/ Vec8_L_Skip8 \/ Vec8_L_Loop4
  \/ Vec8_L_Init1 \/ Vec8_L_Skip4 \/ Vec8_L_Loop1
  \/ Vec8A_Entry \/ Vec8A_L_Loop1 \/ Vec8A_L_Aligned \/ Vec8A_L_Loop8
  \/ Vec8A_L_Skip8_Skip \/ Vec8A_L_Skip8_Body4 \/ Vec8A_L_Skip4
  \/ Vec16_Entry \/ Vec16_L_Loop16 \/ Vec16_L_Skip16 \/ Vec16_Tail16
  \/ Vec16_Body8 \/ Vec16_L_Skip8 \/ Vec16_L_Exit
  \/ Vec32_Entry \/ Vec32_L_Loop32 \/ Vec32_L_Skip32 \/ Vec32_L_Loop8
  \/ Vec32_L_Skip8 \/ Vec32_Tail8 \/ Vec32_L_Exit

LoopNext ==
  \/ cMaskGenericLoopVec \/ cMaskMemcpyOrMemsetLoop
  \/ vMaskGenericLoop \/ cMaskGranularLoopVec

SpecLoop == LoopInit /\ [][LoopNext]_vars

\* The emitted code runs to its end once entered.
SpecLoopFair == SpecLoop /\ WF_vars(LoopNext)

\* The loops of vMaskGenericLoop and cMaskGranularLoopVec on their own.
MaskedPaths == {"vMaskGenericLoop", "cMaskGranularLoopVec"}

MaskedInit == LoopInit /\ lp.path \in MaskedPaths

MaskedNext == vMaskGenericLoop \/ cMaskGranularLoopVec

SpecMasked == MaskedInit /\ [][MaskedNext]_vars

SpecMaskedFair == SpecMasked /\ WF_vars(MaskedNext)

\* ------------------------------------------------------------------------
\* Lane conservation of the generic loop.

\* The run has left the emitted loop through its exit label.
LoopExited == pc = "exit"

\* Shapes whose first instruction tests the counter (sub i, N ; jc), so that
\* an empty span runs no body.  The other shapes run a body before the first
\* test of the counter.
ShapeTestsFirst ==
  \/ lp.maxPixels \in {16, 32}
  \/ (lp.maxPixels \in {4, 8} /\ lp.minAlignment = 1)

\* The span is driven through the loop of cMaskGenericLoopVec.
GenericPath == lp.path = "cMaskGenericLoopVec"

\* Spans the emitted loop is generated for: the predicated tail of the 16
\* and 32 pixel shapes exists, and the span is non-empty unless the shape
\* tests the counter first.
LoopDefined ==
  GenericPath /\ lp.maskedAccess /\ (lp.len >= 1 \/ ShapeTestsFirst)

FillLengths == {0, 1, 3, 4, 7, 8, 15, 16, 31, 32, 33}

\* The span is driven through the fill loop.
FillPath == lp.path = "cMaskMemcpyOrMemsetLoop"

\* The destination with exactly the pixels of the span set to the solid
\* pixel of the part.
SpanFilled ==
  x_inline_pixel_fill_loop(DstInit(lp.pixelType), 0, cfg.solid, lp.len)

\* No pixel at or past the end of the span differs from what it was.
OutsideUntouched ==
  \A k \in DOMAIN dstBuf :
    k >= lp.len => dstBuf[k] = DstInit(lp.pixelType)[k]

FillDefined ==
  /\ GenericPath \/ FillPath
  /\ lp.maskedAccess
  /\ GenericPath => (lp.len >= 1 \/ ShapeTestsFirst)
  /\ FillPath => IsValid(solidOpt.px)

WideBodyRan == lastStore.n > 1

\* A 1-pixel tier body has run last.
NarrowBodyRan == lastStore.n = 1

\* The shape aligns the destination pointer before its wide tiers.
AlignedShape == lp.maxPixels \in {4, 8} /\ lp.minAlignment # 1

\* C17: in every multi-pixel shape of cMaskGenericLoopVec each multi-pixel
\* body runs between enterN + prefetchN and the matching postfetchN + leaveN;
\* the hooks are never nested or left unmatched, so the bracket is closed
\* before a later 1-pixel body and before the exit; and the aligned shapes
\* hold the destination alignment at 16 exactly while the bracket is open and
\* at 0 otherwise.
C17_WideTiersBracketed ==
  GenericPath =>
    /\ fetchMode \in {"none", "one", "N"}
    /\ (WideBodyRan => lastStore.fetch = "N")
    /\ (NarrowBodyRan => lastStore.fetch # "N")
    /\ (LoopExited => fetchMode # "N" /\ dstAlignment = 0)
    /\ (dstAlignment = 16 <=> AlignedShape /\ fetchMode = "N")
    /\ (dstAlignment # 16 => dstAlignment = 0)

\* An aligned 4-pixel run that took leading 1-pixel steps, the bracketed
\* 4-pixel loop and trailing 1-pixel steps.
C17_Witness ==
  /\ LoopExited
  /\ GenericPath
  /\ lp.maxPixels = 4
  /\ lp.minAlignment = 16
  /\ lp.ptr0 % 16 = 12
  /\ lp.len = 11
  /\ NarrowBodyRan
  /\ fetchMode = "one"

\* ------------------------------------------------------------------------
\* The loop of vMaskGenericLoop.

\* The span is driven through the loop of vMaskGenericLoop.
VMaskPath == lp.path = "vMaskGenericLoop"

\* C16 (as stated): in vMaskGenericLoop with maxPixels >= 4 and any span
\* length, every 4 or 8 pixel step runs after enterN + prefetchN and before
\* postfetchN + leaveN, and every path that ran enterN has run postfetchN
\* and leaveN, once, before a later 1-pixel step and before the exit.
C16_AsStated ==
  VMaskPath /\ lp.maxPixels >= 4 =>
    /\ fetchMode \in {"none", "one", "N"}
    /\ (WideBodyRan => lastStore.fetch = "N")
    /\ (NarrowBodyRan => lastStore.fetch # "N")
    /\ (LoopExited => fetchMode # "N")

\* C18 (as stated): on every path of cMaskGenericLoopVec and of
\* vMaskGenericLoop a 1-pixel body runs only after prefetch1, which has run
\* before the first such body and again after each leaveN.
C18_AsStated ==
  (GenericPath \/ VMaskPath) /\ NarrowBodyRan => lastStore.fetch = "one"

\* Spans vMaskGenericLoop is generated for: at least one pixel, or none when
\* the counter is tested before the first step.
VMaskDefined == VMaskPath /\ (lp.len >= 1 \/ lp.maxPixels >= 4)

\* C19: for maxPixels of 1, 4, 8, 16 or 32 and a span of at least one pixel
\* vMaskGenericLoop reaches its exit; its steps handle 8, 4 or 1 pixels (8
\* only when maxPixels >= 8, 4 only when maxPixels >= 4), no step handles
\* more pixels than remain, and on exit the steps sum to the span length.
\* With maxPixels >= 4 an empty span runs no step.
C19_VMaskTerminates ==
  VMaskDefined =>
    /\ <>LoopExited
    /\ [](lastStore.n \in {0, 1, 4, 8} /\ lastStore.n <= lp.maxPixels)
    /\ [](consumed <= lp.len)
    /\ [](LoopExited => consumed = lp.len)

\* A span of 13 pixels went through the 8, the 4 and the 1 pixel step.
C19_Witness ==
  /\ VMaskPath
  /\ LoopExited
  /\ lp.maxPixels = 16
  /\ lp.len = 13
  /\ consumed = 13
  /\ NarrowBodyRan

\* ------------------------------------------------------------------------
\* The loop of cMaskGranularLoopVec.

\* The span is driven through the loop of cMaskGranularLoopVec.
GranularPath == lp.path = "cMaskGranularLoopVec"

\* C20: for maxPixels of 4, 8 or 16 and a span that is a positive multiple
\* of 4, cMaskGranularLoopVec reaches its exit, every body handles 4, 8 or
\* 16 pixels and never more than maxPixels or than remain, once a 4-pixel
\* body has run control never returns to the wider tier, and on exit the
\* bodies sum to the span length.
C20_GranularTiers ==
  (GranularPath /\ lp.maxPixels \in {4, 8, 16} /\ lp.len >= 4) =>
    /\ <>LoopExited
    /\ [](pc # "assert")
    /\ [](lastStore.n \in {0, 4, 8, 16} /\ lastStore.n <= lp.maxPixels)
    /\ [](consumed <= lp.len)
    /\ [](LoopExited => consumed = lp.len)
    /\ [](lastStore.n = 4 /\ lp.maxPixels # 4 =>
            pc \in {"gr16.L_Loop_Iter4", "exit"})

\* A span of 28 pixels went through the 16-pixel tier and three 4-pixel
\* bodies.
C20_Witness ==
  /\ GranularPath
  /\ LoopExited
  /\ lp.maxPixels = 16
  /\ lp.len = 28
  /\ consumed = 28
  /\ lastStore.n = 4

\* ------------------------------------------------------------------------
\* The 1-pixel tier of cMaskGranularLoopVec.

Gran1Span == GranularPath /\ lp.maxPixels = 1 /\ lp.len >= 4

\* The partial pixel after k pixels were shifted out of the fetched four.
PartialShifted(k) ==
  v_srlb_u128(PartialRegister(cfg.pixelType, partialHist.base),
              k * (IF cfg.pixelType = kA8 THEN 2 ELSE 4))

\* C21: with maxPixels of 1 and a span that is a positive multiple of 4,
\* cMaskGranularLoopVec fetches the partial pixel at the start of every
\* group of four pixels and at no other place, runs four steps of one
\* stored pixel, one decrement and one shift each, leaves partial mode,
\* and repeats until the counter is 0; it reaches its exit out of partial
\* mode with the whole span stored.
C21_PartialGroups ==
  /\ [](Gran1Span =>
          /\ pc # "assert"
          /\ i = lp.len - consumed
          /\ pc = "gr1.L_Loop" =>
               ~isInPartialMode /\ consumed % 4 = 0 /\ i > 0
          /\ pc = "gr1.L_Step" =>
               /\ isInPartialMode
               /\ i > 0
               /\ partialHist.shifts = consumed % 4
               /\ partialPixel = PartialShifted(partialHist.shifts)
               /\ lastStore.n \in {0, 1}
          /\ pc = "exit" =>
               /\ ~isInPartialMode
               /\ partialPixel = Undef
               /\ partialHist.shifts = 4
               /\ i = 0)
  /\ (Gran1Span ~> (pc = "exit" /\ ~isInPartialMode))

\* Three groups of four pixels went through the partial pixel.
C21_Witness ==
  /\ Gran1Span
  /\ pc = "exit"
  /\ lp.len = 12
  /\ consumed = 12
  /\ lastStore.n = 1
  /\ partialHist.shifts = 4
  /\ ~isInPartialMode

\* ------------------------------------------------------------------------
\* The predicated tail of the 16 and 32 pixel shapes.

WideShape == GenericPath /\ lp.maxPixels \in {16, 32}

\* The narrowest full tier of the shape, which is the predicate's width.
PredicateWidth == IF lp.simd512 THEN 16 ELSE 8

\* The most recent store was predicated: fewer lanes stored than processed.
PredicatedStore == lastStore.cnt # lastStore.n

\* C22: in the 16 and 32 pixel shapes with masked memory access every
\* predicated store is the last store of the loop, is as wide as the
\* narrowest full tier and stores the remainder of the span, which is
\* neither 0 nor the full width; a span without a remainder ends without a
\* predicated store.  Without masked memory access the shape stops in its
\* assertion with nothing stored.
C22_PredicatedTail ==
  /\ [](WideShape /\ lp.maskedAccess =>
          /\ pc # "assert"
          /\ lastStore.n \in {0, 8, 16, 32}
          /\ PredicatedStore =>
               /\ pc \in {"v16.L_Exit", "v32.L_Exit", "exit"}
               /\ lastStore.n = PredicateWidth
               /\ lastStore.cnt = lp.len % PredicateWidth
               /\ lastStore.cnt > 0
               /\ lastStore.cnt < lastStore.n
          /\ LoopExited =>
               /\ consumed = lp.len
               /\ PredicatedStore <=> lp.len % PredicateWidth # 0)
  /\ [](WideShape /\ ~lp.maskedAccess =>
          pc \in {"entry", "assert"} /\ consumed = 0 /\ lastStore.n = 0)
  /\ [][WideShape /\ ~lp.maskedAccess /\ pc = "entry" => pc' = "assert"]_vars

\* A span of 45 pixels through the 32 pixel shape: one 32-pixel body, one
\* 8-pixel body and a predicated store of 5 pixels.
C22_Witness ==
  /\ WideShape
  /\ lp.maskedAccess
  /\ lp.maxPixels = 32
  /\ lp.len = 45
  /\ LoopExited
  /\ lastStore.n = 8
  /\ lastStore.cnt = 5
  /\ consumed = 45

\* ------------------------------------------------------------------------
\* The shapes of cMaskGenericLoopVec that align the destination.

\* maxPixels 4 or 8 with a minimum alignment, on a span of at least 1 pixel.
AlignedSpan ==
  /\ GenericPath
  /\ AlignedShape
  /\ lp.minAlignment = 16
  /\ lp.len >= 1

\* Pixels of the span not yet stored when the last store began.
RemainingAtStore == lp.len - (consumed - lastStore.cnt)

\* Advancing by whole pixels never brings the pointer to a multiple of 16.
NeverAligned == lp.ptr0 % Bpp(lp.pixelType) # 0

\* C29: in the shapes for maxPixels 4 and 8 with minAlignment 16, for every
\* initial pointer and every span of at least 1 pixel, a store that claims
\* 16-byte alignment is made at a multiple of 16 only; a store wider than
\* one pixel is such an aligned store of 4 or 8 pixels and has at least 4
\* pixels of the span left; a destination that never becomes aligned is
\* stored one pixel at a time; and the loop exits with exactly the span
\* stored.
C29_AlignedStores ==
  AlignedSpan =>
    /\ pc # "assert"
    /\ (lastStore.alignment = 16 => lastStore.at % 16 = 0)
    /\ (lastStore.n > 1 =>
          /\ lastStore.alignment = 16
          /\ lastStore.n \in {4, 8}
          /\ lastStore.cnt = lastStore.n
          /\ RemainingAtStore >= lastStore.n
          /\ RemainingAtStore >= 4)
    /\ (RemainingAtStore < 4 => lastStore.n \in {0, 1})
    /\ (NeverAligned => lastStore.n \in {0, 1})
    /\ (pc = "exit" => consumed = lp.len)

\* A span of 7 pixels at an address 4 past a multiple of 16: three single
\* pixels, then one aligned store of 4.
C29_Witness ==
  /\ AlignedSpan
  /\ lp.maxPixels = 8
  /\ lp.ptr0 % 16 = 4
  /\ lp.len = 7
  /\ pc = "exit"
  /\ lastStore.n = 4
  /\ lastStore.alignment = 16
  /\ lastStore.at = lp.ptr0 + 12
  /\ consumed = 7

\* ------------------------------------------------------------------------
\* The constant-mask session of one CompOpPart: cMaskInit, cMaskFini,
\* partial mode, source fetch, the loop drivers and the per-pixel kernel.

\* Source pixels the non-solid source part can fetch, and the cap on the
\* shifts of nextPartialPixel that are followed.
SrcLen == 4

MaxShifts == 4

SessionState ==
  [mask |-> mask, solidOpt |-> solidOpt, solidPre |-> solidPre]

\* Registers handed out by newSimilarReg hold whatever was in them.  The only
\* read of such a register before it is written is in the solid Screen
\* branch of cMaskInitRGBA32, so one content is enough everywhere else.
FreshRegs(c) ==
  IF c.pixelType = kRGBA32 /\ c.isSolid /\ c.compOp = "Screen"
  THEN {<<0, 0, 0, 0>>, <<255, 255, 255, 255>>}
  ELSE {<<0, 0, 0, 0>>}

\* _cMaskLoopInit without its assertions: any state is taken for None.
_cMaskLoopInit_unchecked(loopType) ==
  /\ cMaskLoopType' = loopType
  /\ cMaskLoopHook' = "cursor"
  /\ aborted' = ""

\* _cMaskLoopInit(loopType): the session must be closed.
_cMaskLoopInit(loopType) ==
  IF cMaskLoopType = "None" /\ cMaskLoopHook = "null"
  THEN /\ cMaskLoopType' = loopType
       /\ cMaskLoopHook' = "cursor"
       /\ aborted' = ""
  ELSE /\ aborted' = "_cMaskLoopInit"
       /\ UNCHANGED <<cMaskLoopType, cMaskLoopHook>>

\* _cMaskLoopFini(): the session must be open.
_cMaskLoopFini ==
  IF cMaskLoopType # "None" /\ cMaskLoopHook # "null"
  THEN /\ cMaskLoopType' = "None"
       /\ cMaskLoopHook' = "null"
       /\ aborted' = ""
  ELSE /\ aborted' = "_cMaskLoopFini"
       /\ UNCHANGED <<cMaskLoopType, cMaskLoopHook>>

\* The tail every cMaskInit overload shares: the result r of cMaskInitA8 or
\* cMaskInitRGBA32 is stored, then _cMaskLoopInit runs.  args are the
\* registers the pixel type's init function was called with.
cMaskInitDone(form, args, r) ==
  /\ mask' = r.mask
  /\ solidOpt' = r.solidOpt
  /\ solidPre' = r.solidPre
  /\ _cMaskLoopInit(r.loopType)
  /\ lastCall' = [op |-> "cMaskInit", arg |-> form, res |-> r.loopType]
  /\ opened' = IF cMaskLoopType = "None" /\ cMaskLoopHook = "null"
               THEN args ELSE opened
  /\ UNCHANGED <<cfg, isInPartialMode, partialPixel, srcX, closed,
                 partialHist>>

\* cMaskInitA8 / cMaskInitRGBA32 as the overloads of cMaskInit call them.
cMaskInitPixelType(sm, vm, fresh) ==
  IF cfg.pixelType = kA8
  THEN cMaskInitA8(cfg, sm, vm, SessionState)
  ELSE cMaskInitRGBA32(cfg, vm, fresh, SessionState)

\* cMaskInit(const x86::Mem& mem): the mask byte is loaded (A8) or
\* broadcast (RGBA32).
cMaskInitMem ==
  /\ aborted = ""
  /\ \E m \in Masks, fresh \in FreshRegs(cfg) :
       LET sm == IF cfg.pixelType = kA8 THEN <<m>> ELSE Undef
           vm == IF cfg.pixelType = kA8 THEN Undef
                 ELSE v_broadcast_u16(<<m>>)
       IN cMaskInitDone("mem", [sm |-> sm, vm |-> vm, fresh |-> fresh],
                        cMaskInitPixelType(sm, vm, fresh))
  /\ SessionOnly

\* cMaskInit(const x86::Gp& sm_, const x86::Vec& vm_): either register may
\* be invalid; RGBA32 broadcasts sm when vm is.
cMaskInitReg ==
  /\ aborted = ""
  /\ \E m \in Masks, hasSm \in BOOLEAN, hasVm \in BOOLEAN,
        fresh \in FreshRegs(cfg) :
       LET sm_ == IF hasSm THEN <<m>> ELSE Undef
           vm_ == IF ~hasVm THEN Undef
                  ELSE IF cfg.pixelType = kA8 THEN <<m>>
                  ELSE v_broadcast_u16(<<m>>)
           sm == IF cfg.pixelType = kA8 THEN sm_ ELSE Undef
           vm == IF cfg.pixelType = kRGBA32 /\ ~IsValid(vm_) /\ IsValid(sm_)
                 THEN v_broadcast_u16(sm_) ELSE vm_
       IN cMaskInitDone(
            IF hasSm THEN (IF hasVm THEN "sm+vm" ELSE "sm")
            ELSE (IF hasVm THEN "vm" ELSE "none"),
            [sm |-> sm, vm |-> vm, fresh |-> fresh],
            cMaskInitPixelType(sm, vm, fresh))
  /\ SessionOnly

\* cMaskInitOpaque()
cMaskInitOpaque ==
  /\ aborted = ""
  /\ \E fresh \in FreshRegs(cfg) :
       cMaskInitDone("opaque",
                     [sm |-> Undef, vm |-> Undef, fresh |-> fresh],
                     cMaskInitPixelType(Undef, Undef, fresh))
  /\ SessionOnly

\* cMaskFini()
cMaskFini ==
  /\ aborted = ""
  /\ LET r == IF cfg.pixelType = kA8
              THEN cMaskFiniA8(cfg, SessionState)
              ELSE cMaskFiniRGBA32(cfg, SessionState)
     IN /\ mask' = r.mask
        /\ solidOpt' = r.solidOpt
        /\ solidPre' = r.solidPre
  /\ _cMaskLoopFini
  /\ lastCall' = [op |-> "cMaskFini", arg |-> Undef, res |-> Undef]
  /\ IF cMaskLoopType # "None" /\ cMaskLoopHook # "null"
     THEN /\ opened' = NoArgs
          /\ closed' = [was |-> TRUE,
                        m |-> IF IsValid(opened.sm) THEN opened.sm
                              ELSE IF IsValid(opened.vm)
                              THEN <<opened.vm[1]>> ELSE Undef]
     ELSE UNCHANGED <<opened, closed>>
  /\ UNCHANGED <<cfg, isInPartialMode, partialPixel, srcX, partialHist>>
  /\ SessionOnly

\* enterPartialMode()
enterPartialMode ==
  /\ aborted = ""
  /\ lastCall' = [op |-> "enterPartialMode", arg |-> Undef, res |-> Undef]
  /\ IF isUsingSolidPre
     THEN UNCHANGED <<isInPartialMode, partialPixel, srcX, aborted,
                      partialHist>>
     ELSE IF isInPartialMode \/ cfg.pixelGranularity # 4
     THEN /\ aborted' = "enterPartialMode"
          /\ UNCHANGED <<isInPartialMode, partialPixel, srcX, partialHist>>
     ELSE /\ cfg.isSolid \/ srcX + 4 <= SrcLen
          /\ LET px == srcPartFetch(cfg, srcX, cfg.pixelGranularity)
             IN /\ partialPixel' = PartialRegister(cfg.pixelType, px)
                /\ partialHist' = [base |-> px, shifts |-> 0]
          /\ srcX' = IF cfg.isSolid THEN srcX ELSE srcX + 4
          /\ isInPartialMode' = TRUE
          /\ aborted' = ""
  /\ UNCHANGED <<cfg, cMaskLoopType, cMaskLoopHook, mask, solidOpt,
                 solidPre, opened, closed>>
  /\ SessionOnly

\* exitPartialMode leaving the fetched pixels in the register.
exitPartialMode_keepPixel ==
  /\ aborted = ""
  /\ lastCall' = [op |-> "exitPartialMode", arg |-> Undef, res |-> Undef]
  /\ IF isUsingSolidPre
     THEN UNCHANGED <<isInPartialMode, partialPixel, aborted, partialHist>>
     ELSE IF ~isInPartialMode
     THEN /\ aborted' = "exitPartialMode"
          /\ UNCHANGED <<isInPartialMode, partialPixel, partialHist>>
     ELSE /\ isInPartialMode' = FALSE
          /\ UNCHANGED partialPixel
          /\ partialHist' = NoPartialHist
          /\ aborted' = ""
  /\ UNCHANGED <<cfg, cMaskLoopType, cMaskLoopHook, mask, solidOpt,
                 solidPre, srcX, opened, closed>>
  /\ SessionOnly

\* exitPartialMode()
exitPartialMode ==
  /\ aborted = ""
  /\ lastCall' = [op |-> "exitPartialMode", arg |-> Undef, res |-> Undef]
  /\ IF isUsingSolidPre
     THEN UNCHANGED <<isInPartialMode, partialPixel, aborted, partialHist>>
     ELSE IF ~isInPartialMode
     THEN /\ aborted' = "exitPartialMode"
          /\ UNCHANGED <<isInPartialMode, partialPixel, partialHist>>
     ELSE /\ isInPartialMode' = FALSE
          /\ partialPixel' = Undef
          /\ partialHist' = NoPartialHist
          /\ aborted' = ""
  /\ UNCHANGED <<cfg, cMaskLoopType, cMaskLoopHook, mask, solidOpt,
                 solidPre, srcX, opened, closed>>
  /\ SessionOnly

\* nextPartialPixel shifting by the two bytes of an A8 pixel whatever the
\* pixel type.
nextPartialPixel_shift2 ==
  /\ aborted = ""
  /\ partialHist.shifts < MaxShifts
  /\ lastCall' = [op |-> "nextPartialPixel", arg |-> Undef, res |-> Undef]
  /\ IF ~isInPartialMode
     THEN UNCHANGED <<partialPixel, partialHist>>
     ELSE /\ partialPixel' =
               v_srlb_u128(partialPixel, 2)
          /\ partialHist' = [partialHist EXCEPT !.shifts = @ + 1]
  /\ UNCHANGED <<cfg, cMaskLoopType, cMaskLoopHook, mask, solidOpt,
                 solidPre, isInPartialMode, srcX, aborted, opened, closed>>
  /\ SessionOnly

\* nextPartialPixel()
nextPartialPixel ==
  /\ aborted = ""
  /\ partialHist.shifts < MaxShifts
  /\ lastCall' = [op |-> "nextPartialPixel", arg |-> Undef, res |-> Undef]
  /\ IF ~isInPartialMode
     THEN UNCHANGED <<partialPixel, partialHist>>
     ELSE /\ partialPixel' =
               v_srlb_u128(partialPixel,
                           IF cfg.pixelType = kA8 THEN 2 ELSE 4)
          /\ partialHist' = [partialHist EXCEPT !.shifts = @ + 1]
  /\ UNCHANGED <<cfg, cMaskLoopType, cMaskLoopHook, mask, solidOpt,
                 solidPre, isInPartialMode, srcX, aborted, opened, closed>>
  /\ SessionOnly

\* What srcFetch(p, n, ...) does for the part in its current state: the
\* pixels it returns, where they come from, and the source position after.
srcFetchResult(n) ==
  IF isUsingSolidPre
  THEN IF cfg.pixelType = kRGBA32
       THEN [ok |-> TRUE, from |-> "solidPre", x |-> srcX,
             px |-> [k \in 1..n |-> solidPre]]
       ELSE [ok |-> FALSE, from |-> "solidPre", x |-> srcX, px |-> Undef]
  ELSE IF isInPartialMode
  THEN IF n = 1
       THEN [ok |-> TRUE, from |-> "partial", x |-> srcX,
             px |-> <<PartialFetch(cfg.pixelType, partialPixel)>>]
       ELSE [ok |-> FALSE, from |-> "partial", x |-> srcX, px |-> Undef]
  ELSE [ok |-> TRUE, from |-> "source",
        x |-> IF cfg.isSolid THEN srcX ELSE srcX + n,
        px |-> srcPartFetch(cfg, srcX, n)]

\* srcFetch(p, n, flags, predicate) for n = 1 and n = 4.
srcFetch ==
  /\ aborted = ""
  /\ \E n \in {1, 4} :
       LET r == srcFetchResult(n) IN
       /\ r.x <= SrcLen
       /\ srcX' = r.x
       /\ aborted' = IF r.ok THEN "" ELSE "srcFetch"
       /\ lastCall' = [op |-> "srcFetch",
                       arg |-> [n |-> n, from |-> r.from,
                                lane |-> partialHist.shifts],
                       res |-> r.px]
  /\ UNCHANGED <<cfg, cMaskLoopType, cMaskLoopHook, mask, solidOpt,
                 solidPre, isInPartialMode, partialPixel, opened, closed,
                 partialHist>>
  /\ SessionOnly

\* The loop a driver emits: the fill or copy loop in an Opaque session of a
\* part that only copies, the per-pixel loop otherwise.
cMaskLoopPath ==
  IF cMaskLoopType = "Opaque" /\ shouldJustCopyOpaqueFill(cfg)
  THEN "cMaskMemcpyOrMemsetLoop" ELSE "vec"

\* The fill loop cannot be emitted for a solid source without a packed solid
\* pixel (BL_ASSERT(_solidOpt.px.isValid())).
FillAsserts == cfg.isSolid /\ ~IsValid(solidOpt.px)

\* cMaskGenericLoop(i): the loop chosen is recorded; the emitted loop runs
\* later, on a span.
cMaskGenericLoop ==
  /\ aborted = ""
  /\ lastCall' = [op |-> "cMaskGenericLoop", arg |-> Undef,
                  res |-> IF cMaskLoopPath = "vec"
                          THEN "cMaskGenericLoopVec" ELSE cMaskLoopPath]
  /\ aborted' = IF cMaskLoopPath # "vec" /\ FillAsserts
                THEN "cMaskMemcpyOrMemsetLoop" ELSE ""
  /\ UNCHANGED <<partVars, srcX, opened, closed, partialHist>>
  /\ SessionOnly

\* cMaskGranularLoop(i): cMaskGranularLoopVec needs a pixel granularity of
\* 4, and its one-pixel shape enters and leaves partial mode while it is
\* emitted.
cMaskGranularLoop ==
  /\ aborted = ""
  /\ lastCall' = [op |-> "cMaskGranularLoop", arg |-> Undef,
                  res |-> IF cMaskLoopPath = "vec"
                          THEN "cMaskGranularLoopVec" ELSE cMaskLoopPath]
  /\ aborted' =
       IF cMaskLoopPath # "vec"
       THEN IF FillAsserts THEN "cMaskMemcpyOrMemsetLoop" ELSE ""
       ELSE IF cfg.pixelGranularity # 4 THEN "cMaskGranularLoopVec"
       ELSE IF cfg.maxPixels = 1 /\ ~isUsingSolidPre /\ isInPartialMode
       THEN "enterPartialMode" ELSE ""
  /\ UNCHANGED <<partVars, srcX, opened, closed, partialHist>>
  /\ SessionOnly

\* Destination pixel the kernel is run on; without a destination alpha the
\* destination is opaque.
DstSample(c) ==
  IF c.pixelType = kA8 THEN <<17>>
  ELSE IF c.hasDa THEN <<10, 20, 30, 40>> ELSE <<10, 20, 30, 255>>

\* Operators whose solid kernel takes its source from _solidOpt and fetches
\* nothing.
SolidCompOps(pixelType) ==
  IF pixelType = kA8
  THEN {"SrcCopy", "SrcOver", "SrcIn", "SrcOut", "DstOut", "Xor", "Plus"}
  ELSE RGBA32CompOps \ {"HardLight"}

\* cMaskProcStoreAdvance(dPtr, 1) as far as the stored pixel goes: the
\* kernel of the open session on one destination pixel.  A kernel that has
\* no solid specialisation fetches its source pixel.
cMaskProcPixel ==
  /\ aborted = ""
  /\ LET fetches == ~(cfg.isSolid /\ cfg.compOp \in SolidCompOps(cfg.pixelType))
         r == srcFetchResult(1)
         d == DstSample(cfg)
     IN IF fetches
        THEN /\ r.x <= SrcLen
             /\ srcX' = r.x
             /\ aborted' = IF r.ok THEN "" ELSE "srcFetch"
             /\ lastCall' = [op |-> "cMaskProc",
                             arg |-> [d |-> d,
                                      s |-> IF r.ok THEN r.px[1] ELSE Undef],
                             res |-> IF r.ok THEN cMaskProc(1, r.px[1], d)
                                     ELSE Undef]
        ELSE /\ UNCHANGED <<srcX, aborted>>
             /\ lastCall' = [op |-> "cMaskProc",
                             arg |-> [d |-> d, s |-> cfg.solid],
                             res |-> cMaskProc(1, cfg.solid, d)]
  /\ UNCHANGED <<partVars, opened, closed, partialHist>>
  /\ SessionOnly

\* The loop variables while no loop is run.
LoopIdle ==
  /\ lp = Undef
  /\ i = 0
  /\ dPtr = 0
  /\ pc = "idle"
  /\ consumed = 0
  /\ fetchMode = "none"
  /\ lastStore = Undef
  /\ dstAlignment = 0
  /\ dstBuf = Undef

\* A part as constructed, prepared and initialised: no session is open, no
\* operand holds a register, partial mode is off.
SessionInit ==
  /\ cfg \in {c \in PartConfigs : PartConfigUsed(c)}
  /\ cMaskLoopType = "None"
  /\ cMaskLoopHook = "null"
  /\ mask = PipeCMaskReset
  /\ solidOpt = SolidPixelReset
  /\ solidPre = Undef
  /\ isInPartialMode = FALSE
  /\ partialPixel = Undef
  /\ HistIdle
  /\ LoopIdle
  /\ KernIdle

SessionNext ==
  \/ cMaskInitMem \/ cMaskInitReg \/ cMaskInitOpaque \/ cMaskFini
  \/ enterPartialMode \/ exitPartialMode \/ nextPartialPixel \/ srcFetch
  \/ cMaskGenericLoop \/ cMaskGranularLoop \/ cMaskProcPixel

SpecSession == SessionInit /\ [][SessionNext]_vars

\* ------------------------------------------------------------------------
\* The session state machine.

\* The last call was a cMaskInit overload that was handed a mask.
InitWithMask(call) ==
  call.op = "cMaskInit" /\ call.arg \in {"mem", "sm", "vm", "sm+vm"}

\* One call, seen as a step of the state machine None / Opaque / Variant.
C2_Step ==
  /\ lastCall'.op = "cMaskInit" =>
       IF cMaskLoopType = "None"
       THEN /\ aborted' = ""
            /\ cMaskLoopType' =
                 (IF InitWithMask(lastCall') THEN "Variant" ELSE "Opaque")
            /\ cMaskLoopHook' = "cursor"
       ELSE /\ aborted' = "_cMaskLoopInit"
            /\ UNCHANGED <<cMaskLoopType, cMaskLoopHook>>
  /\ lastCall'.op = "cMaskFini" =>
       IF cMaskLoopType # "None"
       THEN /\ aborted' = ""
            /\ cMaskLoopType' = "None"
            /\ cMaskLoopHook' = "null"
       ELSE /\ aborted' = "_cMaskLoopFini"
            /\ UNCHANGED <<cMaskLoopType, cMaskLoopHook>>
  /\ lastCall'.op \notin {"cMaskInit", "cMaskFini"} =>
       UNCHANGED <<cMaskLoopType, cMaskLoopHook>>

\* C2: the loop state starts at None; an init in None opens a Variant
\* session when it is handed a mask and an Opaque one otherwise and records
\* the hook; a fini in an open session returns to None and clears the hook;
\* an init in an open session and a fini in None stop at the pairing
\* assertion; the hook is set exactly while a session is open.
C2_SessionStateMachine ==
  /\ cMaskLoopType = "None"
  /\ [](cMaskLoopHook # "null" <=> cMaskLoopType # "None")
  /\ [][C2_Step]_vars

\* A second session, opened without a mask after a masked one was closed.
C2_Witness ==
  /\ aborted = ""
  /\ closed.was
  /\ IsValid(closed.m)
  /\ lastCall.op = "cMaskInit"
  /\ cMaskLoopType = "Opaque"
  /\ cMaskLoopHook = "cursor"

\* The state a part that was never used reaches by the init that opened the
\* current session.
FreshInit(c, args) ==
  IF c.pixelType = kA8
  THEN cMaskInitA8(c, args.sm, args.vm, SessionReset)
  ELSE cMaskInitRGBA32(c, args.vm, args.fresh, SessionReset)

C6_PartialPixelOrder ==
  /\ isInPartialMode /\ aborted = "" =>
       partialHist.base =
         srcPartFetch(cfg, IF cfg.isSolid THEN srcX ELSE srcX - 4, 4)
  /\ ( /\ lastCall.op = "srcFetch"
       /\ aborted = ""
       /\ lastCall.arg.from = "partial"
       /\ lastCall.arg.lane < 4 )
     => lastCall.res = <<partialHist.base[lastCall.arg.lane + 1]>>

\* The fourth pixel of an A8 image, fetched after three shifts.
C6_Witness ==
  /\ lastCall.op = "srcFetch"
  /\ aborted = ""
  /\ lastCall.arg.from = "partial"
  /\ lastCall.arg.lane = 3
  /\ cfg.pixelType = kA8
  /\ ~cfg.isSolid
  /\ lastCall.res = <<SrcAt(kA8, 3)>>

\* The last call was a loop driver.
DriverCalled == lastCall.op \in {"cMaskGenericLoop", "cMaskGranularLoop"}

\* C8: a driver emits the fill or copy loop only for SrcCopy with a solid
\* source or an aligned pattern blit of the destination's format; for every
\* other part and in every Variant session it emits the per-pixel loop.
C8_FastPathOnlyForCopy ==
  DriverCalled =>
    /\ lastCall.res = "cMaskMemcpyOrMemsetLoop" =>
         /\ cfg.compOp = "SrcCopy"
         /\ cfg.isSolid \/ (cfg.alignedBlit /\ cfg.sameFormat)
    /\ ( \/ cfg.compOp # "SrcCopy"
         \/ ~(cfg.isSolid \/ (cfg.alignedBlit /\ cfg.sameFormat))
         \/ cMaskLoopType = "Variant" )
       => lastCall.res \in {"cMaskGenericLoopVec", "cMaskGranularLoopVec"}

\* The copy loop emitted for an aligned pattern blit.
C8_Witness ==
  /\ lastCall.op = "cMaskGranularLoop"
  /\ lastCall.res = "cMaskMemcpyOrMemsetLoop"
  /\ aborted = ""
  /\ ~cfg.isSolid
  /\ cMaskLoopType = "Opaque"

\* C9 (as stated): after cMaskFini returns the solid operands are reset and
\* the part is out of partial mode and holds no partial pixel.
C9_AsStated ==
  lastCall.op = "cMaskFini" /\ aborted = "" =>
    /\ solidOpt = SolidPixelReset
    /\ solidPre = Undef
    /\ ~isInPartialMode
    /\ partialPixel = Undef

\* C9 (amended): a cMaskFini that returns leaves the solid operands and the
\* mask reset, and leaves the partial-pixel state as it found it.
C9_FiniResetsOperands ==
  [][lastCall'.op = "cMaskFini" /\ aborted' = "" =>
       /\ solidOpt' = SolidPixelReset
       /\ solidPre' = Undef
       /\ mask' = PipeCMaskReset
       /\ UNCHANGED <<isInPartialMode, partialPixel>>]_vars

\* A session of a solid A8 part closed while in partial mode.
C9_Witness ==
  /\ lastCall.op = "cMaskFini"
  /\ aborted = ""
  /\ isInPartialMode
  /\ IsValid(partialPixel)
  /\ cfg.isSolid
  /\ cfg.pixelType = kA8
  /\ solidOpt = SolidPixelReset

\* ------------------------------------------------------------------------
\* The per-pixel kernels: a part is constructed for sampled inputs, an
\* Opaque and a Variant session are run on it, and the pixel each session
\* stores is kept.

\* Mask bytes, A8 values and RGBA32 alphas the kernels are run on.
KernelMasks == {0, 128, 255}

KernelAlphas == {0, 1, 100, 127, 128, 200, 254, 255}

\* RGBA32 alphas of the operators other than SrcOver.
FewAlphas == {0, 1, 128, 254, 255}

\* Premultiplied RGBA32 pixels of alpha a.
PixelsOfAlpha(a) == {<<a, 0, a \div 2, a>>, <<a \div 3, a, a, a>>}

\* Sca = (200, 0, 0, 200) and Dca = (0, 0, 200, 100) as <<B, G, R, A>>.
ExampleSca == <<0, 0, 200, 200>>

ExampleDca == <<200, 0, 0, 100>>

KernelSrc(pixelType, compOp) ==
  IF pixelType = kA8 THEN {<<a>> : a \in KernelAlphas}
  ELSE IF compOp = "SrcOver"
  THEN UNION {PixelsOfAlpha(a) : a \in KernelAlphas} \cup {ExampleSca}
  ELSE UNION {PixelsOfAlpha(a) : a \in FewAlphas}

\* Destination pixels; a destination without alpha is opaque, and the
\* example destination is composited by SrcOver only.
KernelDst(pixelType, compOp, hasDa) ==
  IF pixelType = kA8 THEN {<<a>> : a \in KernelAlphas}
  ELSE IF ~hasDa THEN PixelsOfAlpha(255) \cup {<<10, 20, 30, 255>>}
  ELSE IF compOp = "SrcOver"
  THEN UNION {PixelsOfAlpha(a) : a \in KernelAlphas} \cup {ExampleDca}
  ELSE UNION {PixelsOfAlpha(a) : a \in FewAlphas}

\* The part a kernel is run for.
KernelPart(pixelType, compOp, isSolid, hasDa, s) ==
  [pixelType |-> pixelType, compOp |-> compOp, isSolid |-> isSolid,
   hasDa |-> hasDa, typeA |-> FALSE, maxPixels |-> 8,
   pixelGranularity |-> 1, alignedBlit |-> FALSE, sameFormat |-> FALSE,
   solid |-> IF isSolid THEN s ELSE Undef]

\* Pixel type, operator, source kind and destination alpha of the parts the
\* kernels are run for; hasDa is varied for the operators that test it.
KernelParts ==
  { q \in [t : {kA8, kRGBA32},
           op : (A8CompOps \cup RGBA32CompOps) \ {"HardLight"},
           so : BOOLEAN, da : BOOLEAN] :
      /\ q.op \in (IF q.t = kA8 THEN A8CompOps ELSE RGBA32CompOps)
      /\ (~(q.t = kRGBA32 /\ q.op \in DaCompOps) => q.da) }

KernelInputs ==
  UNION { { [cfg |-> KernelPart(q.t, q.op, q.so, q.da, s), s |-> s,
             d |-> d, m |-> m, fresh |-> f] :
              s \in KernelSrc(q.t, q.op),
              d \in KernelDst(q.t, q.op, q.da),
              m \in KernelMasks,
              f \in FreshRegs(KernelPart(q.t, q.op, q.so, q.da, Undef)) } :
          q \in KernelParts }

\* One session on a new part and one kernel run in it: cMaskInit(mem) with
\* the mask byte m when hasMask, cMaskInitOpaque otherwise, then the kernel
\* for n pixels on destination d; s is what the source part fetches.
KernelSession(c, hasMask, m, fresh, n, s, d) ==
  LET sm == IF hasMask /\ c.pixelType = kA8 THEN <<m>> ELSE Undef
      vm == IF hasMask /\ c.pixelType = kRGBA32
            THEN v_broadcast_u16(<<m>>) ELSE Undef
      r == IF c.pixelType = kA8
           THEN cMaskInitA8(c, sm, vm, SessionReset)
           ELSE cMaskInitRGBA32(c, vm, fresh, SessionReset)
      src == IF IsValid(r.solidPre) THEN r.solidPre ELSE s
  IN cMaskProcOn(c, r.loopType, r.mask, r.solidOpt, n, src, d)

\* A second source and destination pixel, for kernels run on two pixels.
SecondSrc == <<100, 0, 50, 100>>

SecondDst == <<0, 254, 254, 254>>

\* vMaskProcRGBA32InvertMask(vn, vm) for the empty vn the SrcCopy kernel
\* passes: in a Variant session that holds _mask->vn the loop over the
\* registers of vn compares nothing and _mask->vn is handed back; otherwise
\* the inversion of vm is computed.
vMaskProcRGBA32InvertMask(loopType, mvn, vm) ==
  IF loopType = "Variant" /\ IsValid(mvn) THEN mvn ELSE v_inv255_u16(vm)

\* The inverted mask the kernel is handed when it is run on the mask byte m2
\* inside the session cMaskInit opened with the mask byte m.
InvertedInSession(c, m, fresh, m2) ==
  LET r == cMaskInitRGBA32(c, v_broadcast_u16(<<m>>), fresh, SessionReset)
  IN vMaskProcRGBA32InvertMask(r.loopType, r.mask.vn,
                               v_broadcast_u16(<<m2>>))

\* vMaskProcStoreAdvance(dPtr, 1, vm) with the mask byte m2, run inside the
\* session cMaskInit opened with the mask byte m.
VMaskInSession(c, m, fresh, m2, s, d) ==
  LET r == cMaskInitRGBA32(c, v_broadcast_u16(<<m>>), fresh, SessionReset)
  IN vMaskProcRGBA32Vec(c.compOp, c.hasDa, s, d, v_broadcast_u16(<<m2>>),
                        IF r.loopType = "Variant" THEN r.mask.vn ELSE Undef)

NoOutput ==
  [stage |-> "in", opaque |-> Undef, variant |-> Undef, pair |-> Undef,
   second |-> Undef, vmask |-> Undef]

\* The variables of the other machines while the kernels run.
PartIdle ==
  /\ cfg = Undef
  /\ cMaskLoopType = "None"
  /\ cMaskLoopHook = "null"
  /\ mask = PipeCMaskReset
  /\ solidOpt = SolidPixelReset
  /\ solidPre = Undef
  /\ isInPartialMode = FALSE
  /\ partialPixel = Undef

KernelOnly == UNCHANGED <<loopVars, partVars, histVars, kin>>

KernelInit ==
  /\ kin \in KernelInputs
  /\ kout = NoOutput
  /\ PartIdle
  /\ HistIdle
  /\ LoopIdle

\* cMaskInitOpaque ; cMaskProcStoreAdvance(dPtr, 1) ; cMaskFini
RunOpaqueSession ==
  /\ kout.stage = "in"
  /\ kout' = [kout EXCEPT
                !.stage = "opaque",
                !.opaque = KernelSession(kin.cfg, FALSE, kin.m, kin.fresh,
                                         1, kin.s, kin.d)]
  /\ KernelOnly

\* cMaskInit(mem) ; cMaskProcStoreAdvance(dPtr, 1) ; cMaskFini
RunVariantSession ==
  /\ kout.stage = "opaque"
  /\ kout' = [kout EXCEPT
                !.stage = "variant",
                !.variant = KernelSession(kin.cfg, TRUE, kin.m, kin.fresh,
                                          1, kin.s, kin.d)]
  /\ KernelOnly

\* cMaskInitOpaque ; cMaskProcStoreAdvance(dPtr, 2) ; cMaskFini for RGBA32
\* SrcOver: the two pixels of one register, and the second pixel on its own.
RunTwoPixels ==
  /\ kout.stage = "variant"
  /\ kin.cfg.pixelType = kRGBA32
  /\ kin.cfg.compOp = "SrcOver"
  /\ LET s2 == IF kin.cfg.isSolid THEN kin.s ELSE SecondSrc IN
     kout' = [kout EXCEPT
                !.stage = "pair",
                !.pair = KernelSession(kin.cfg, FALSE, kin.m, kin.fresh, 2,
                                       kin.s \o s2, kin.d \o SecondDst),
                !.second = KernelSession(kin.cfg, FALSE, kin.m, kin.fresh,
                                         1, s2, SecondDst)]
  /\ KernelOnly

\* cMaskInit(mem) ; vMaskProcStoreAdvance(dPtr, 1, vm) ; cMaskFini for a
\* non-solid RGBA32 source: the kernel is handed a mask of its own.
RunVMaskInSession ==
  /\ kout.stage = "variant"
  /\ kin.cfg.pixelType = kRGBA32
  /\ ~kin.cfg.isSolid
  /\ \E m2 \in KernelMasks :
       kout' = [kout EXCEPT
                  !.stage = "vmask",
                  !.vmask = [m |-> m2,
                             vn |-> InvertedInSession(kin.cfg, kin.m,
                                                      kin.fresh, m2),
                             px |-> VMaskInSession(kin.cfg, kin.m, kin.fresh,
                                                   m2, kin.s, kin.d)]]
  /\ KernelOnly

KernelNext ==
  \/ RunOpaqueSession \/ RunVariantSession \/ RunTwoPixels
  \/ RunVMaskInSession

SpecKernel == KernelInit /\ [][KernelNext]_vars

\* ------------------------------------------------------------------------
\* Claims about the per-pixel kernels.

\* A premultiplied pixel: no channel exceeds the pixel's alpha.
IsPremultiplied(p) == \A k \in 1..Len(p) : p[k] <= p[Len(p)]

BothSessionsRan == kout.stage \in {"variant", "pair"}

\* C4, as stated: with a mask of 255 the Variant session stores, for every
\* operator, pixel format and premultiplied source and destination, a pixel
\* bit-identical to the one the Opaque session stores on the same inputs.
C4_AsStated ==
  (/\ BothSessionsRan
   /\ kin.m = 255
   /\ IsPremultiplied(kin.s)
   /\ IsPremultiplied(kin.d))
    => /\ IsValid(kout.opaque)
       /\ IsValid(kout.variant)
       /\ kout.variant = kout.opaque

\* C5, as stated: with a mask of 0 the Variant session stores the fetched
\* destination pixel, for every operator, pixel format, solid and non-solid
\* source.
C5_AsStated ==
  (BothSessionsRan /\ kin.m = 0) => kout.variant = kin.d

\* RGBA32 SrcOver without a mask, on the example pixels or on premultiplied
\* ones.
SrcOverCase ==
  /\ kout.stage # "in"
  /\ kin.cfg.pixelType = kRGBA32
  /\ kin.cfg.compOp = "SrcOver"
  /\ \/ IsPremultiplied(kin.s) /\ IsPremultiplied(kin.d)
     \/ kin.s = ExampleSca /\ kin.d = ExampleDca

\* 255 times the distance of out from Sc + Dc * (255 - Sa) / 255.
SrcOverError(out, sc, dc, sa) ==
  LET e == 255 * out - (255 * sc + dc * (255 - sa))
  IN IF e < 0 THEN 0 - e ELSE e

\* The largest value a 16-bit lane of channel k takes in the Opaque SrcOver
\* session, computed without wrapping: Dc * Yc + Xc for a solid source,
\* Dc * (255 - Sa) + 128 otherwise.
SrcOverWidestLane(c, s, d, k) ==
  IF c.isSolid THEN d[k] * (255 - s[4]) + (s[k] * 256 - s[k] + 128)
  ELSE d[k] * (255 - s[4]) + 128

C23_AsStated ==
  (BothSessionsRan /\ kin.cfg.isSolid) =>
    IsValid(kout.opaque) /\ IsValid(kout.variant)

\* ------------------------------------------------------------------------
\* The inverted mask of the RGBA32 kernels.

GenericKernel(hasMask) ==
  KernelSession([kin.cfg EXCEPT !.isSolid = FALSE, !.solid = Undef],
                hasMask, kin.m, kin.fresh, 1, kin.s, kin.d)

\* C26, as stated: for every operator with a solid specialisation, every
\* premultiplied source, destination and mask, the pixel cMaskInit and the
\* solid kernel produce equals the pixel of the generic kernel on the same
\* constant source and mask, in the Opaque and in the Variant session.
C26_AsStated ==
  (/\ BothSessionsRan
   /\ kin.cfg.isSolid
   /\ kin.cfg.compOp \in SolidCompOps(kin.cfg.pixelType)
   /\ IsPremultiplied(kin.s)
   /\ IsPremultiplied(kin.d))
    => /\ kout.opaque = GenericKernel(FALSE)
       /\ kout.variant = GenericKernel(TRUE)

\* ------------------------------------------------------------------------
\* A8 SrcOver of a solid source without a mask.

\* x / 255 rounded to the nearest integer.
RoundDiv255(x) == (2 * x + 255) \div 510

\* C27, as stated: for A8 SrcOver with a solid source the Opaque session
\* stores round(Sa + Da * (255 - Sa) / 255) for every Sa and Da.
C27_AsStated ==
  (/\ kout.stage # "in"
   /\ kin.cfg.pixelType = kA8
   /\ kin.cfg.compOp = "SrcOver"
   /\ kin.cfg.isSolid)
    => kout.opaque =
         <<RoundDiv255(255 * kin.s[1] + kin.d[1] * (255 - kin.s[1]))>>

\* ------------------------------------------------------------------------
\* RGBA32 Screen of a solid source without a mask.

\* Sca + Dca.(1 - Sca) of every channel, rounded to the nearest integer.
ScreenOf(s, d) ==
  [k \in 1..Len(s) |-> RoundDiv255(255 * s[k] + d[k] * (255 - s[k]))]

\* C28, as stated: for RGBA32 Screen with a solid source the Opaque session
\* stores Sca + Dca.(1 - Sca) in every channel.
C28_AsStated ==
  (/\ kout.stage # "in"
   /\ kin.cfg.pixelType = kRGBA32
   /\ kin.cfg.compOp = "Screen"
   /\ kin.cfg.isSolid)
    => kout.opaque = ScreenOf(kin.s, kin.d)

\* ------------------------------------------------------------------------
\* The mask registers of a session.

\* _mask->sm and _mask->vm hold a register.
HoldsSm == IsValid(mask.sm)

HoldsVm == IsValid(mask.vm)

\* C13 (as stated): in every state of a session the mask context holds no
\* mask register, only the scalar one or only the vector one, never both.
C13_AsStated == aborted = "" => ~(HoldsSm /\ HoldsVm)

\* Every statement is for runs no assertion has stopped.
\* C13 (amended): outside a Variant session no mask register is held; an
\* RGBA32 session never holds the scalar mask; an A8 session that holds the
\* vector mask holds the scalar mask as well, and it holds the scalar mask
\* whenever it was opened with a mask.
C13_MaskRegisters ==
  aborted = "" =>
    /\ (cMaskLoopType # "Variant" => ~HoldsSm /\ ~HoldsVm)
    /\ (cfg.pixelType = kRGBA32 => ~HoldsSm)
    /\ (cfg.pixelType = kA8 /\ HoldsVm => HoldsSm)
    /\ (cfg.pixelType = kA8 /\ cMaskLoopType = "Variant" => HoldsSm)

\* An A8 session opened with a vector mask only: the scalar mask was
\* extracted from it and both are held.
C13_Witness ==
  /\ cfg.pixelType = kA8
  /\ cMaskLoopType = "Variant"
  /\ ~IsValid(opened.sm)
  /\ IsValid(opened.vm)
  /\ HoldsSm
  /\ HoldsVm
  /\ aborted = ""

\* ------------------------------------------------------------------------
\* Code generation for one part: preparePart() and the kernel emitted for a
\* requested number of pixels.

\* Every composition operator a part can be created with.
CompOps ==
  {"SrcOver", "SrcCopy", "SrcIn", "SrcOut", "SrcAtop", "DstOver", "DstCopy",
   "DstIn", "DstOut", "DstAtop", "Xor", "Clear", "Plus", "Minus", "Modulate",
   "Multiply", "Screen", "Overlay", "Darken", "Lighten", "ColorDodge",
   "ColorBurn", "LinearBurn", "LinearLight", "PinLight", "HardLight",
   "SoftLight", "Difference", "Exclusion", "AlphaInv"}

\* Operators whose RGBA32 kernels are scalar.
ScalarCompOps == {"ColorDodge", "ColorBurn", "LinearLight", "SoftLight"}

\* The switch of preparePart over the RGBA32 operators; 0 is its default
\* case, BL_NOT_REACHED().
PrepareTableRGBA32(compOp) ==
  CASE compOp \in {"SrcOver", "SrcCopy", "SrcIn", "SrcOut", "SrcAtop",
                   "DstOver", "DstIn", "DstOut", "DstAtop", "Xor", "Clear",
                   "Plus", "Modulate", "Multiply", "Screen", "Darken",
                   "Lighten", "LinearBurn"} -> 8
    [] compOp \in {"Minus", "Overlay", "PinLight", "HardLight", "Difference",
                   "Exclusion"} -> 4
    [] compOp \in ScalarCompOps -> 1
    [] OTHER -> 0

\* blMin of three values.
blMin(a, b, c) ==
  IF a <= b /\ a <= c THEN a ELSE IF b <= c THEN b ELSE c

\* preparePart() that scales the table value by the SIMD multiplier even when
\* it is 1.
preparePart_alwaysScaled(p) ==
  LET limit0 == IF (p.is32Bit /\ ~p.isSolid /\ p.pixelType # kA8)
                   \/ p.dstComplexFetch \/ p.srcComplexFetch
                THEN 4 ELSE 64
      table == IF p.pixelType = kA8 THEN 8 ELSE PrepareTableRGBA32(p.compOp)
      n == blMin(table * p.simdMultiplier, limit0 * p.simdMultiplier,
                 p.srcMaxPixels)
  IN [aborted |-> table = 0, maxPixels |-> n,
      minAlignment |-> PrepareMinAlignment(p.pixelType, n)]

\* preparePart(): maxPixels and _minAlignment of the part, or the abort of
\* BL_NOT_REACHED() for an operator the switch does not list.
preparePart(p) ==
  LET limit0 == IF (p.is32Bit /\ ~p.isSolid /\ p.pixelType # kA8)
                   \/ p.dstComplexFetch \/ p.srcComplexFetch
                THEN 4 ELSE 64
      table == IF p.pixelType = kA8 THEN 8 ELSE PrepareTableRGBA32(p.compOp)
      scaled == IF table > 1 THEN table * p.simdMultiplier ELSE table
      pixelLimit == IF table > 1 THEN limit0 * p.simdMultiplier ELSE limit0
      n == blMin(scaled, pixelLimit, p.srcMaxPixels)
  IN [aborted |-> table = 0, maxPixels |-> n,
      minAlignment |-> PrepareMinAlignment(p.pixelType, n)]

\* Operators with a branch in vMaskProcA8Gp and vMaskProcA8Vec.
A8KernelOps ==
  {"SrcCopy", "SrcOver", "SrcIn", "SrcOut", "DstOut", "Xor", "Plus",
   "AlphaInv"}

\* Operators with a branch in vMaskProcRGBA32Vec that emits a kernel.
RGBA32KernelOps ==
  {"SrcCopy", "SrcOver", "SrcIn", "SrcOut", "SrcAtop", "DstOver", "DstIn",
   "DstOut", "DstAtop", "Xor", "Plus", "Minus", "Modulate", "Multiply",
   "Overlay", "Screen", "Darken", "Lighten", "LinearBurn", "PinLight",
   "HardLight", "Difference", "Exclusion"} \cup ScalarCompOps

\* The kernel chain that takes the scalar operators at any lane count.
vMaskProcBranch_anyLanes(pixelType, compOp, n) ==
  IF pixelType = kA8
  THEN IF compOp \in A8KernelOps THEN compOp ELSE "BL_NOT_REACHED"
  ELSE IF compOp \in RGBA32KernelOps THEN compOp ELSE "BL_NOT_REACHED"

\* The branch of the kernel chain (vMaskProcA8Gp, vMaskProcA8Vec,
\* vMaskProcRGBA32Vec) taken for an operator and n pixels: the operator whose
\* kernel is emitted, or the BL_NOT_REACHED() the chain ends in.  The
\* branch of DstCopy is itself BL_NOT_REACHED(); the scalar operators match
\* only with n == 1.  The constant-mask kernels fall through to this chain.
vMaskProcBranch(pixelType, compOp, n) ==
  IF pixelType = kA8
  THEN IF compOp \in A8KernelOps THEN compOp ELSE "BL_NOT_REACHED"
  ELSE IF compOp \in ScalarCompOps /\ n # 1 THEN "BL_NOT_REACHED"
  ELSE IF compOp \in RGBA32KernelOps THEN compOp
  ELSE "BL_NOT_REACHED"

\* v_swizzle_u32(x, x, shuffleImm(2, 2, 0, 0)) on unpacked pixels: the low
\* 32 bits of every pixel, its first two lanes, are copied over its high
\* 32 bits.
v_swizzle_u32_2200(x) ==
  [k \in 1..Len(x) |-> IF (k - 1) % 4 >= 2 THEN x[k - 2] ELSE x[k]]

\* The mask register after vMaskProcA8Gp ran on it: SrcCopy and SrcOut
\* invert it in place and invert it back when it is immutable.
vMaskProcA8GpMask(compOp, msk, mImmutable) ==
  IF compOp \in {"SrcCopy", "SrcOut"}
  THEN IF mImmutable THEN i_inv_u8(i_inv_u8(msk)) ELSE i_inv_u8(msk)
  ELSE msk

\* The mask register after vMaskProcA8Vec ran on it.
vMaskProcA8VecMask(compOp, vm, mImmutable) ==
  IF compOp \in {"SrcCopy", "SrcOut"}
  THEN IF mImmutable THEN v_inv255_u16(v_inv255_u16(vm))
       ELSE v_inv255_u16(vm)
  ELSE vm

\* vMaskProcRGBA32InvertDone that never inverts back.
vMaskProcRGBA32InvertDone_never(loopType, isSessionMask, vn) == vn

\* vMaskProcRGBA32InvertDone(vn, mImmutable): inside a Variant session a vn
\* that is the session's mask register is inverted back.
vMaskProcRGBA32InvertDone(loopType, isSessionMask, vn) ==
  IF loopType = "Variant" /\ isSessionMask THEN v_inv255_u16(vn) ELSE vn

\* The mask register after vMaskProcRGBA32Vec ran on it.  SrcIn and SrcOut
\* invert it in place between vMaskProcRGBA32InvertMask(vm, vm), which finds
\* no cached inversion outside SrcCopy, and vMaskProcRGBA32InvertDone; Minus
\* with a destination alpha zeroes its alpha lane, inverts it, and when it
\* is immutable inverts it back and restores the alpha lane from the low
\* lanes; SrcCopy inverts into a register of its own.
vMaskProcRGBA32VecMask(compOp, useDa, loopType, isSessionMask, vm, mImmutable) ==
  CASE compOp \in {"SrcIn", "SrcOut"} ->
         vMaskProcRGBA32InvertDone(loopType, isSessionMask,
                                   v_inv255_u16(vm))
    [] compOp = "Minus" /\ useDa ->
         LET inv == v_inv255_u16(vZeroAlphaW(vm))
         IN IF mImmutable THEN v_swizzle_u32_2200(v_inv255_u16(inv))
            ELSE inv
    [] OTHER -> vm

\* The session's mask register after the kernel cMaskProcA8Gp,
\* cMaskProcA8Vec or cMaskProcRGBA32Vec hands it to, in a Variant session
\* of a non-solid source opened with the mask byte m: _mask->sm for one A8
\* pixel, _mask->vm otherwise, always as an immutable mask.
cMaskProcMask(pixelType, compOp, n, useDa, m) ==
  IF pixelType = kA8
  THEN IF n = 1 THEN vMaskProcA8GpMask(compOp, <<m>>, TRUE)
       ELSE vMaskProcA8VecMask(compOp, <<m>>, TRUE)
  ELSE vMaskProcRGBA32VecMask(compOp, useDa, "Variant", TRUE,
                              v_broadcast_u16(<<m>>), TRUE)

\* SIMD width multipliers of the pipeline compiler.
SimdMultipliers == {1, 2, 4}

\* What the source fetch part declares as its maximum.
SrcMaxPixels == {1, 4, 64}

\* Pixel counts a kernel is requested for.
KernelLanes == {1, 4}

CodegenInputs ==
  [pixelType : {kA8, kRGBA32}, compOp : CompOps, isSolid : BOOLEAN,
   is32Bit : BOOLEAN, dstComplexFetch : BOOLEAN, srcComplexFetch : BOOLEAN,
   simdMultiplier : SimdMultipliers, srcMaxPixels : SrcMaxPixels,
   n : KernelLanes]

\* preparePart() has not run; no kernel was requested.
NotPrepared == [aborted |-> FALSE, maxPixels |-> 0, minAlignment |-> 0]

\* No kernel has run on the session's mask.
NoMaskRun == [m |-> 0, useDa |-> FALSE, before |-> Undef, after |-> Undef]

NotGenerated ==
  [prepared |-> NotPrepared, kernel |-> "none", mask |-> NoMaskRun]

CodegenInit ==
  /\ kin \in CodegenInputs
  /\ kout = NotGenerated
  /\ PartIdle
  /\ HistIdle
  /\ LoopIdle

\* preparePart() on a new part.
PreparePart ==
  /\ kout.prepared = NotPrepared
  /\ kout.kernel = "none"
  /\ kout' = [kout EXCEPT !.prepared = preparePart(kin)]
  /\ KernelOnly

\* The kernel for kin.n pixels is requested from a part, prepared or not,
\* that has not aborted.
EmitKernel ==
  /\ kout.kernel = "none"
  /\ ~kout.prepared.aborted
  /\ kout' = [kout EXCEPT
                !.kernel = vMaskProcBranch(kin.pixelType, kin.compOp, kin.n)]
  /\ KernelOnly

\* The emitted kernel of a non-solid source runs in a Variant session
\* opened with a constant mask.
RunKernelOnMask ==
  /\ kout.kernel \notin {"none", "BL_NOT_REACHED"}
  /\ kout.mask = NoMaskRun
  /\ ~kin.isSolid
  /\ \E m \in Masks, useDa \in BOOLEAN :
       kout' = [kout EXCEPT
                  !.mask = [m |-> m, useDa |-> useDa,
                            before |-> IF kin.pixelType = kA8 THEN <<m>>
                                       ELSE v_broadcast_u16(<<m>>),
                            after |-> cMaskProcMask(kin.pixelType,
                                                    kin.compOp, kin.n,
                                                    useDa, m)]]
  /\ KernelOnly

CodegenNext == PreparePart \/ EmitKernel \/ RunKernelOnMask

SpecCodegen == CodegenInit /\ [][CodegenNext]_vars

\* preparePart() has run and returned.
Prepared == kout.prepared # NotPrepared /\ ~kout.prepared.aborted

\* The pixel limit is lowered: 32-bit runtime with a non-solid source and a
\* pixel type other than A8, or a complex fetch on either side.
LimitLowered ==
  \/ (kin.is32Bit /\ ~kin.isSolid /\ kin.pixelType # kA8)
  \/ kin.dstComplexFetch
  \/ kin.srcComplexFetch

\* C12 (as stated): maxPixels is at most 4 whenever the limit is lowered,
\* for every operator and SIMD multiplier, and always at least 1, at most 64
\* and at most the source part's maximum.
C12_AsStated ==
  Prepared =>
    /\ (LimitLowered => kout.prepared.maxPixels <= 4)
    /\ kout.prepared.maxPixels >= 1
    /\ kout.prepared.maxPixels <= 64
    /\ kout.prepared.maxPixels <= kin.srcMaxPixels

\* The combination has no kernel branch.
NoKernelBranch ==
  \/ (kin.pixelType = kA8 /\ kin.compOp \notin A8KernelOps)
  \/ (kin.pixelType = kRGBA32 /\ kin.compOp \notin RGBA32KernelOps)
  \/ (kin.pixelType = kRGBA32 /\ kin.compOp \in ScalarCompOps /\ kin.n > 1)

\* C15: for every pixel format, operator and lane count without a kernel
\* branch the request for the kernel ends in BL_NOT_REACHED(), and for every
\* other one a kernel of that operator is emitted; preparePart() itself
\* aborts for an RGBA32 operator outside its table.
C15_NoKernelAborts ==
  /\ (kout.kernel # "none" =>
        IF NoKernelBranch THEN kout.kernel = "BL_NOT_REACHED"
        ELSE kout.kernel = kin.compOp)
  /\ (kout.prepared # NotPrepared /\ kin.pixelType = kRGBA32
        /\ kin.compOp \in {"DstCopy", "AlphaInv"} => kout.prepared.aborted)

\* Soft-light was requested for 4 RGBA32 pixels.
C15_Witness ==
  /\ kin.pixelType = kRGBA32
  /\ kin.compOp = "SoftLight"
  /\ kin.n = 4
  /\ kout.kernel = "BL_NOT_REACHED"

\* preparePart() gives the scalar operators one pixel at a time, whatever
\* the SIMD multiplier and the fetch configuration.
ScalarOpsPrepareOne ==
  \A p \in CodegenInputs :
    p.pixelType = kRGBA32 /\ p.compOp \in ScalarCompOps =>
      preparePart(p) = [aborted |-> FALSE, maxPixels |-> 1,
                        minAlignment |-> 1]

\* The lane counts preparePart() can fix, by pixel type.
PreparedMaxPixels ==
  [t \in {kA8, kRGBA32} |->
     { preparePart(p).maxPixels :
         p \in {q \in CodegenInputs : q.pixelType = t /\ q.n = 1} } \ {0}]

\* C11: preparePart() fixes maxPixels at 1 for the RGBA32 operators
\* color-dodge, color-burn, linear-light and soft-light, for every SIMD
\* multiplier and fetch configuration; and in the loops of
\* cMaskGenericLoopVec, cMaskGranularLoopVec and vMaskGenericLoop no body
\* handles more pixels than maxPixels, so with maxPixels = 1 every body
\* handles exactly one.  The loops are run for the lane counts preparePart()
\* can fix.
C11_LanesWithinMaxPixels ==
  /\ ScalarOpsPrepareOne
  /\ lp.maxPixels \in PreparedMaxPixels[lp.pixelType]
  /\ lastStore.n <= lp.maxPixels
  /\ (lp.maxPixels = 1 => lastStore.n \in {0, 1})

\* Five 1-pixel steps of vMaskGenericLoop under maxPixels = 1.
C11_Witness ==
  /\ lp.maxPixels = 1
  /\ lp.path = "vMaskGenericLoop"
  /\ lp.pixelType = kRGBA32
  /\ NarrowBodyRan
  /\ consumed = 5

\* ------------------------------------------------------------------------
\* Entering and leaving partial mode.

EnterCalled == lastCall'.op = "enterPartialMode"
ExitCalled == lastCall'.op = "exitPartialMode"
PartialCallAccepted == aborted' = ""

\* C14 (as stated): a call of enterPartialMode or exitPartialMode that was
\* accepted found the mask loop state other than None and a pixel
\* granularity of 4.
C14_AsStated ==
  lastCall.op \in {"enterPartialMode", "exitPartialMode"} /\ aborted = ""
    => cMaskLoopType # "None" /\ cfg.pixelGranularity = 4

\* C14 (amended): with the source served from the precomputed solid pixel
\* both calls are accepted and leave the partial-pixel state as it was;
\* otherwise enterPartialMode is accepted exactly when the part is not in
\* partial mode and its granularity is 4, exitPartialMode exactly when the
\* part is in partial mode, and every other call stops with an assertion.
\* The mask loop state is not looked at.  An accepted enter leaves the part
\* in partial mode with four source pixels held, an accepted exit leaves it
\* out of partial mode with the register reset.
C14_PartialModeCalls ==
  [][/\ EnterCalled =>
          /\ PartialCallAccepted <=>
               (isUsingSolidPre
                  \/ (~isInPartialMode /\ cfg.pixelGranularity = 4))
          /\ PartialCallAccepted /\ ~isUsingSolidPre =>
               isInPartialMode' /\ partialPixel' # Undef
     /\ ExitCalled =>
          /\ PartialCallAccepted <=> (isUsingSolidPre \/ isInPartialMode)
          /\ PartialCallAccepted /\ ~isUsingSolidPre =>
               ~isInPartialMode' /\ partialPixel' = Undef
     /\ (EnterCalled \/ ExitCalled) /\ isUsingSolidPre =>
          UNCHANGED <<isInPartialMode, partialPixel>>
     /\ (EnterCalled \/ ExitCalled) /\ ~PartialCallAccepted =>
          UNCHANGED <<isInPartialMode, partialPixel>>
    ]_vars

\* Partial mode entered with no mask session open.
C14_Witness ==
  /\ lastCall.op = "enterPartialMode"
  /\ aborted = ""
  /\ ~isUsingSolidPre
  /\ isInPartialMode
  /\ cMaskLoopType = "None"
  /\ cfg.pixelGranularity = 4

\* ------------------------------------------------------------------------
\* The session's mask register across a kernel.

KernelRanOnMask == kout.mask # NoMaskRun

\* C25: in a Variant session of a non-solid source the mask register the
\* kernel was handed holds, when the kernel's code ends, the mask value the
\* session was opened with, for every operator that has a kernel, both
\* pixel formats, one and several pixels, with and without destination
\* alpha; so every kernel invocation of the session starts from that value.
C25_MaskRestored ==
  KernelRanOnMask =>
    /\ IsValid(kout.mask.after)
    /\ kout.mask.after = kout.mask.before

\* RGBA32 Minus with a destination alpha ran on the mask 96: the alpha lane
\* it zeroed holds 96 again.
C25_Witness ==
  /\ KernelRanOnMask
  /\ kin.pixelType = kRGBA32
  /\ kin.compOp = "Minus"
  /\ kout.mask.useDa
  /\ kout.mask.m = 96
  /\ kout.mask.after = <<96, 96, 96, 96>>

\* ------------------------------------------------------------------------
\* The shapes of the loops against what preparePart() produces.

\* The loop runs with a maxPixels and the minAlignment preparePart() gives.
PreparedLoop ==
  /\ lp.path \in {"cMaskGenericLoopVec", "cMaskGranularLoopVec",
                  "vMaskGenericLoop"}
  /\ lp.maxPixels \in PreparedMaxPixels[lp.pixelType]
  /\ lp.minAlignment = PrepareMinAlignment(lp.pixelType, lp.maxPixels)
  /\ (GranularPath => cfg.pixelGranularity = 4)

\* The 16 and 32 pixel shapes of cMaskGenericLoopVec stop in BL_ASSERT(0)
\* when masked memory access is missing.
TailAsserted == GenericPath /\ lp.maxPixels \in {16, 32} /\ ~lp.maskedAccess

\* C30, as stated: for every maxPixels preparePart() can produce, with its
\* minAlignment, cMaskGenericLoopVec, cMaskGranularLoopVec (granularity 4)
\* and vMaskGenericLoop select a shape; none reaches BL_NOT_REACHED().
C30_AsStated ==
  (PreparedLoop /\ ~TailAsserted) => pc # "assert"

====
